---- MODULE Spec2Model ----
(***************************************************************************)
(* Cortland Cast: the media-player controller (media_player.py) and its    *)
(* satellite AirPlay entities (airplay_device.py) as a state machine.      *)
(*                                                                         *)
(* Volumes are kept in integer percent (the code's float v is v*100 here); *)
(* requested volume levels are kept in thousandths so that the 5% snapping *)
(* has ties to decide.  Text that the code lower-cases is a sequence of    *)
(* one-character strings.                                                  *)
(***************************************************************************)
EXTENDS Integers, Sequences, FiniteSets, TLC

VARIABLES
    state,            \* CortlandCastController._state
    volume_level,     \* CortlandCastController._volume_level (percent)
    media_title,      \* _attr_media_title ("" is None)
    media_artist,     \* _attr_media_artist ("" is None)
    media_album_name, \* _attr_media_album_name ("" is None)
    media_position,   \* _attr_media_position (AbsentNum is unset)
    media_duration,   \* _attr_media_duration (AbsentNum is unset)
    entity_picture,   \* _attr_entity_picture / _attr_media_image_url
    attr_shuffle,     \* _attr_shuffle
    attr_repeat,      \* _attr_repeat
    group_members,    \* CortlandCastController._attr_group_members (a list)
    ws_connected,     \* CortlandCastController._ws_connected
    ws_pc,            \* position of the _maintain_websocket task
    ws_failures,      \* connection attempts that failed since the last success (saturating)
    poll_pc,          \* position of async_update / _poll_now_playing
    removed,          \* async_will_remove_from_hass has run
    dict_order,       \* key order of hass.data[DOMAIN]["airplay_devices"]
    is_active,        \* AppleMusicAirPlayDevice._is_active, per device id
    dev_volume,       \* AppleMusicAirPlayDevice._attr_volume_level, per device id (percent)
    entity_id,        \* AppleMusicAirPlayDevice.entity_id, per device id ("" is None)
    handed,           \* per device id: how often its entity was passed to add_entities
    srv_active,       \* the server's active device ids
    cmd,              \* per device id: the satellite command in flight
    ctl,              \* the main-player command in flight
    last              \* the last operation that completed, with its input

vars == <<state, volume_level, media_title, media_artist, media_album_name, media_position,
          media_duration, entity_picture, attr_shuffle, attr_repeat, group_members,
          ws_connected, ws_pc, ws_failures, poll_pc, removed, dict_order, is_active,
          dev_volume, entity_id, handed, srv_active, cmd, ctl, last>>

playbackVars == <<state, volume_level, media_title, media_artist, media_album_name, media_position,
                  media_duration, entity_picture, attr_shuffle, attr_repeat>>

channelVars == <<ws_connected, ws_pc, ws_failures, poll_pc, removed>>

registryVars == <<dict_order, is_active, dev_volume, entity_id, handed>>

----------------------------------------------------------------------------
(* Text and lower-casing *)

UpperLetters == <<"A","B","C","D","E","F","G","H","I","J","K","L","M",
                  "N","O","P","Q","R","S","T","U","V","W","X","Y","Z">>

LowerLetters == <<"a","b","c","d","e","f","g","h","i","j","k","l","m",
                  "n","o","p","q","r","s","t","u","v","w","x","y","z">>

\* str.lower() on one character
LowerChar(c) ==
    IF \E i \in 1..Len(UpperLetters) : UpperLetters[i] = c
    THEN LowerLetters[CHOOSE i \in 1..Len(UpperLetters) : UpperLetters[i] = c]
    ELSE c

\* str.lower()
Lower(s) == [i \in 1..Len(s) |-> LowerChar(s[i])]

s_playing == <<"p","l","a","y","i","n","g">>
s_paused  == <<"p","a","u","s","e","d">>
s_stopped == <<"s","t","o","p","p","e","d">>
s_idle    == <<"i","d","l","e">>

\* MediaPlayerState members used by the controller
PLAYING == "playing"
PAUSED  == "paused"
IDLE    == "idle"

\* data.get(key) of a numeric key that the dict does not hold
AbsentNum == -1

\* RepeatMode members
REPEAT_OFF == "off"
REPEAT_ONE == "one"
REPEAT_ALL == "all"

----------------------------------------------------------------------------
(* Snapshot merge: CortlandCastController._update_from_now_playing *)

\* Python truthiness of a JSON boolean field ("absent" is a missing key)
Truthy(b) == b = "true"

\* x or y, on text
OrElse(x, y) == IF x # "" THEN x ELSE y

\* max(lo, min(hi, v))
Clamp(lo, hi, v) == IF v < lo THEN lo ELSE IF v > hi THEN hi ELSE v

\* rep_map.get(rep, RepeatMode.OFF)
RepeatOf(rep) == IF rep \in {REPEAT_OFF, REPEAT_ONE, REPEAT_ALL} THEN rep ELSE REPEAT_OFF

\* urllib.parse.quote on the album names of the model: a space becomes %20
Quote(album) == IF album = "My Album" THEN "My%20Album" ELSE album

\* A mutant of ArtworkUrl: the URL is built whether or not there is an album
ArtworkUrl_NeverCleared(album) == <<"/album_artwork?name=", Quote(album)>>

\* f"{base_url}/album_artwork?name={quote(album)}", or None (the empty sequence)
ArtworkUrl(album) ==
    IF album # "" THEN <<"/album_artwork?name=", Quote(album)>> ELSE <<>>

\* A mutant of DerivePlaybackState: the state field is compared without lower-casing
DerivePlaybackState_NoLower(data) ==
    IF data.state = s_playing \/ Truthy(data.is_playing) THEN PLAYING
    ELSE IF data.state = s_paused THEN PAUSED
    ELSE IF data.state = s_stopped \/ data.state = s_idle THEN IDLE
    ELSE IF data.title # "" \/ data.name # "" THEN PLAYING
    ELSE IDLE

\* The playback state a snapshot yields (media_player.py 303-318)
DerivePlaybackState(data) ==
    LET state_str == Lower(data.state)
        is_playing == data.is_playing
    IN  IF state_str = s_playing \/ Truthy(is_playing) THEN PLAYING
        ELSE IF state_str = s_paused THEN PAUSED
        ELSE IF state_str = s_stopped \/ state_str = s_idle THEN IDLE
        ELSE IF data.title # "" \/ data.name # "" THEN PLAYING
        ELSE IDLE

\* _update_from_now_playing(data, include_position): the new playback fields
UpdateFromNowPlaying(data, include_position) ==
    /\ state' = DerivePlaybackState(data)
    /\ media_title' = OrElse(data.title, data.name)
    /\ media_artist' = data.artist
    /\ media_album_name' = data.album
    /\ media_position' =
          IF include_position /\ data.position # AbsentNum /\ data.position # 0
          THEN data.position ELSE media_position
    /\ media_duration' =
          IF include_position /\ data.duration # AbsentNum /\ data.duration # 0
          THEN data.duration ELSE media_duration
    /\ volume_level' =
          IF data.volume # AbsentNum /\ data.volume # 0
          THEN Clamp(0, 100, data.volume) ELSE volume_level
    /\ entity_picture' = ArtworkUrl(data.album)
    /\ attr_shuffle' = IF Truthy(data.shuffle) THEN TRUE ELSE attr_shuffle
    /\ attr_repeat' = IF data.repeat # "" THEN RepeatOf(data.repeat) ELSE attr_repeat

----------------------------------------------------------------------------
(* Bounds *)

\* device ids the server can report: 1..MaxDevices
MaxDevices == 2

\* longest entity list a join request carries
MaxRequest == 2

\* failed connection attempts counted before the count saturates
MaxFailures == 3

DeviceIds == 1..MaxDevices

----------------------------------------------------------------------------
(* hass.data[DOMAIN] and entity ids *)

\* entity ids are <<platform name, number>>; None is the empty sequence
NoEntity == <<>>

\* the controller's entity id, assigned by the hub
ControllerEntityId == <<"media_player.cortland", 0>>

\* an entity id of some other media player of the hub
OtherEntityId == <<"media_player.other", 0>>

\* the entity id the hub gives the satellite of device d
SatelliteEntityId(d) == <<"media_player.airplay", d>>

\* ConfigEntry.entry_id
EntryId == "entry_01"

\* None, where a player object is looked up
NoPlayer == "none"

\* hass.data[DOMAIN] after media_player.async_setup_entry and __init__.async_setup_entry:
\* each key with the kind of value stored under it, and for a dict its "player_ref" item
DomainData ==
    [k \in {"player_ref", "config_entry", "airplay_devices", "add_entities",
            "_restart_service_registered", "_panel_entries", "_panel_registered"} |->
        IF k = "player_ref" THEN [kind |-> "entity", player_ref |-> NoPlayer]
        ELSE IF k = "airplay_devices" THEN [kind |-> "dict", player_ref |-> NoPlayer]
        ELSE [kind |-> "other", player_ref |-> NoPlayer]]

\* hass.data.get(DOMAIN, {}).get(self._entry.entry_id, {}).get("player_ref")
SatellitePlayerRef ==
    IF EntryId \in DOMAIN DomainData /\ DomainData[EntryId].kind = "dict"
    THEN DomainData[EntryId].player_ref
    ELSE NoPlayer

\* MediaPlayerState.ON and MediaPlayerState.OFF
ON  == "on"
OFF == "off"

----------------------------------------------------------------------------
(* Output device registry *)

Registered(order, d) == \E i \in 1..Len(order) : order[i] = d

\* the ids of a set as a list in ascending order
RECURSIVE SortedSeq(_)
SortedSeq(S) ==
    IF S = {} THEN <<>>
    ELSE LET m == CHOOSE x \in S : \A y \in S : x <= y
         IN  <<m>> \o SortedSeq(S \ {m})

\* the elements of a list
Range(seq) == {seq[i] : i \in 1..Len(seq)}

\* A mutant of ActiveEntityIds: entities without an entity id are not skipped
ActiveEntityIds_Unbound(order, act, ent) ==
    LET sel == SelectSeq(order, LAMBDA d : act[d])
    IN  [i \in 1..Len(sel) |-> ent[sel[i]]]

\* [entity.entity_id for entity in airplay_devices.values()
\*                    if entity._is_active and entity.entity_id]
ActiveEntityIds(order, act, ent) ==
    LET sel == SelectSeq(order, LAMBDA d : act[d] /\ ent[d] # NoEntity)
    IN  [i \in 1..Len(sel) |-> ent[sel[i]]]

\* AppleMusicAirPlayDevice.update_from_server_data on the registry reg
UpdateFromServerData(reg, device_data) ==
    [reg EXCEPT
        !.act[device_data.id] = device_data.active,
        !.vol[device_data.id] =
            IF device_data.volume # AbsentNum /\ device_data.volume # 0
            THEN device_data.volume ELSE @]

\* the loop over the listing in _discover_airplay_devices (media_player.py 78-98)
RECURSIVE ProcessListing(_, _)
ProcessListing(devices, reg) ==
    IF devices = <<>> THEN reg
    ELSE LET device == Head(devices)
         IN  IF device.id = 0 \/ device.name = ""
             THEN ProcessListing(Tail(devices), reg)
             ELSE IF Registered(reg.order, device.id)
             THEN ProcessListing(Tail(devices), UpdateFromServerData(reg, device))
             ELSE ProcessListing(Tail(devices),
                    [UpdateFromServerData(reg, device) EXCEPT
                        !.order = Append(@, device.id)])

\* the loop over the event's devices in _handle_ws_message (media_player.py 264-272):
\* the registry after the updates, and the entity ids collected
RECURSIVE ProcessPushDevices(_, _, _)
ProcessPushDevices(devices, reg, ids) ==
    IF devices = <<>> THEN [reg |-> reg, ids |-> ids]
    ELSE LET device_data == Head(devices)
         IN  IF device_data.id # 0 /\ Registered(reg.order, device_data.id)
             THEN ProcessPushDevices(Tail(devices),
                    UpdateFromServerData(reg, device_data),
                    IF device_data.active /\ entity_id[device_data.id] # NoEntity
                    THEN Append(ids, entity_id[device_data.id]) ELSE ids)
             ELSE ProcessPushDevices(Tail(devices), reg, ids)

\* a volume field that float() rejects, such as a word
NonNumeric == -2

\* the same loop over an event whose records may carry a volume that is not a number:
\* update_from_server_data assigns _is_active and then raises at float(volume)
\* (airplay_device.py 225-227), which ends the loop
RECURSIVE ProcessPushDevicesRaising(_, _, _)
ProcessPushDevicesRaising(devices, reg, ids) ==
    IF devices = <<>> THEN [reg |-> reg, ids |-> ids, raised |-> FALSE]
    ELSE LET device_data == Head(devices)
         IN  IF device_data.id # 0 /\ Registered(reg.order, device_data.id)
             THEN IF device_data.volume = NonNumeric
                  THEN [reg |-> [reg EXCEPT !.act[device_data.id] = device_data.active],
                        ids |-> ids, raised |-> TRUE]
                  ELSE ProcessPushDevicesRaising(Tail(devices),
                         UpdateFromServerData(reg, device_data),
                         IF device_data.active /\ entity_id[device_data.id] # NoEntity
                         THEN Append(ids, entity_id[device_data.id]) ELSE ids)
             ELSE ProcessPushDevicesRaising(Tail(devices), reg, ids)

\* the registry as one value
Registry == [order |-> dict_order, act |-> is_active, vol |-> dev_volume]

----------------------------------------------------------------------------
(* The server and the hub, as the integration sees them *)

\* the outcome of one HTTP request: status 200, another status, or an exception
HttpOutcomes == {"200", "500", "exc"}

\* volumes (percent) a device record of the server can carry; AbsentNum is no volume key
ListVolumes == {AbsentNum, 35}

\* GET /airplay/devices: the devices in S, active as the server has them, those in
\* nameless listed without a name
Listing(S, nameless, v) ==
    LET ids == SortedSeq(S)
    IN  [i \in 1..Len(ids) |->
            [id |-> ids[i], name |-> IF ids[i] \in nameless THEN "" ELSE "speaker",
             active |-> ids[i] \in srv_active, volume |-> v]]

\* the devices of an airplay_devices push event: those in S, the ones in A active
PushDevices(S, A, v) ==
    LET ids == SortedSeq(S)
    IN  [i \in 1..Len(ids) |->
            [id |-> ids[i], name |-> "speaker", active |-> ids[i] \in A, volume |-> v]]

\* the server's active set changes on the server's side (Music.app, another client)
ServerChangesActive(d) ==
    /\ srv_active' = IF d \in srv_active THEN srv_active \ {d} ELSE srv_active \cup {d}
    /\ last' = [op |-> "server_changes_active", dev |-> d]
    /\ UNCHANGED <<playbackVars, channelVars, registryVars, group_members, cmd, ctl>>

\* AppleMusicAirPlayDevice.state of device d (airplay_device.py 79-87)
SatelliteState(d) ==
    IF is_active[d]
    THEN IF SatellitePlayerRef # NoPlayer THEN state ELSE ON
    ELSE OFF

\* the hub finishes adding a satellite entity handed to async_add_entities
HubAddsEntity(d) ==
    /\ Registered(dict_order, d)
    /\ handed[d] > 0
    /\ entity_id[d] = NoEntity
    /\ entity_id' = [entity_id EXCEPT ![d] = SatelliteEntityId(d)]
    /\ last' = [op |-> "hub_adds_entity", dev |-> d]
    /\ UNCHANGED <<playbackVars, channelVars, dict_order, is_active, dev_volume, handed,
                   group_members, srv_active, cmd, ctl>>

----------------------------------------------------------------------------
(* Discovery loop and the airplay_devices push event *)

\* A mutant of DiscoverAirplayDevices: devices missing from the listing are dropped
DiscoverAirplayDevices_Prune(st, S, nameless, v, bound) ==
    /\ IF st = "200"
       THEN LET reg == ProcessListing(Listing(S, nameless, v), Registry)
                ent == [d \in DeviceIds |->
                           IF bound /\ Registered(reg.order, d) /\ ~Registered(dict_order, d)
                           THEN SatelliteEntityId(d) ELSE entity_id[d]]
                kept == SelectSeq(reg.order, LAMBDA d : d \in S)
            IN  /\ dict_order' = kept
                /\ is_active' = reg.act
                /\ dev_volume' = reg.vol
                /\ entity_id' = ent
                /\ handed' = [d \in DeviceIds |->
                                 IF Registered(reg.order, d) /\ ~Registered(dict_order, d)
                                 THEN handed[d] + 1 ELSE handed[d]]
                /\ group_members' = ActiveEntityIds(kept, reg.act, ent)
       ELSE UNCHANGED <<dict_order, is_active, dev_volume, entity_id, handed, group_members>>
    /\ last' = [op |-> "discovery", status |-> st, listed |-> S, nameless |-> nameless,
                volume |-> v]
    /\ UNCHANGED <<playbackVars, channelVars, srv_active, cmd, ctl>>

\* one pass of the loop in _discover_airplay_devices (media_player.py 66-128); bound
\* tells whether the hub has given the new entities their ids by the time
\* add_entities_func returns (otherwise HubAddsEntity does it later)
DiscoverAirplayDevices(st, S, nameless, v, bound) ==
    /\ IF st = "200"
       THEN LET reg == ProcessListing(Listing(S, nameless, v), Registry)
                ent == [d \in DeviceIds |->
                           IF bound /\ Registered(reg.order, d) /\ ~Registered(dict_order, d)
                           THEN SatelliteEntityId(d) ELSE entity_id[d]]
            IN  /\ dict_order' = reg.order
                /\ is_active' = reg.act
                /\ dev_volume' = reg.vol
                /\ entity_id' = ent
                /\ handed' = [d \in DeviceIds |->
                                 IF Registered(reg.order, d) /\ ~Registered(dict_order, d)
                                 THEN handed[d] + 1 ELSE handed[d]]
                /\ group_members' = ActiveEntityIds(reg.order, reg.act, ent)
       ELSE UNCHANGED <<dict_order, is_active, dev_volume, entity_id, handed, group_members>>
    /\ last' = [op |-> "discovery", status |-> st, listed |-> S, nameless |-> nameless,
                volume |-> v]
    /\ UNCHANGED <<playbackVars, channelVars, srv_active, cmd, ctl>>

\* the loop over a listing whose records may repeat an id, lack an id or a name, or
\* carry a volume that is not a number (media_player.py 78-98): the registry after
\* the loop, the ids of new_entities, and whether update_from_server_data raised.
\* For a registered device the exception comes after _is_active is assigned; for a
\* new one it comes before the entity is appended and registered.
RECURSIVE ProcessListingRaising(_, _, _)
ProcessListingRaising(devices, reg, new) ==
    IF devices = <<>> THEN [reg |-> reg, new |-> new, raised |-> FALSE]
    ELSE LET device == Head(devices)
         IN  IF device.id = 0 \/ device.name = ""
             THEN ProcessListingRaising(Tail(devices), reg, new)
             ELSE IF Registered(reg.order, device.id)
             THEN IF device.volume = NonNumeric
                  THEN [reg |-> [reg EXCEPT !.act[device.id] = device.active],
                        new |-> new, raised |-> TRUE]
                  ELSE ProcessListingRaising(Tail(devices),
                                             UpdateFromServerData(reg, device), new)
             ELSE IF device.volume = NonNumeric
                  THEN [reg |-> reg, new |-> new, raised |-> TRUE]
                  ELSE ProcessListingRaising(Tail(devices),
                         [UpdateFromServerData(reg, device) EXCEPT
                             !.order = Append(@, device.id)],
                         Append(new, device.id))

\* one pass of the loop in _discover_airplay_devices answered 200 with such a
\* listing: an exception skips add_entities_func and the group members and is caught
\* at the end of the pass (media_player.py 124-125)
DiscoverListing(devices, bound) ==
    /\ LET out == ProcessListingRaising(devices, Registry, <<>>)
           ent == [d \in DeviceIds |->
                      IF bound /\ d \in Range(out.new) THEN SatelliteEntityId(d)
                      ELSE entity_id[d]]
       IN  /\ dict_order' = out.reg.order
           /\ is_active' = out.reg.act
           /\ dev_volume' = out.reg.vol
           /\ IF out.raised
              THEN UNCHANGED <<entity_id, handed, group_members>>
              ELSE /\ entity_id' = ent
                   /\ handed' = [d \in DeviceIds |->
                                    handed[d]
                                    + Cardinality({i \in 1..Len(out.new) : out.new[i] = d})]
                   /\ group_members' = ActiveEntityIds(out.reg.order, out.reg.act, ent)
           /\ last' = [op |-> "discovery_listing", status |-> "200", devices |-> devices,
                       raised |-> out.raised]
    /\ UNCHANGED <<playbackVars, channelVars, srv_active, cmd, ctl>>

\* A mutant of HandleWsAirplayDevices: the event's devices are processed as a listing
\* is, unknown ids creating entries
HandleWsAirplayDevices_Creates(S, A, v) ==
    /\ ws_pc = "reading"
    /\ LET reg == ProcessListing(PushDevices(S, A, v), Registry)
       IN  /\ dict_order' = reg.order
           /\ is_active' = reg.act
           /\ dev_volume' = reg.vol
           /\ group_members' = ActiveEntityIds(reg.order, reg.act, entity_id)
    /\ last' = [op |-> "ws_airplay_devices", listed |-> S, active |-> A, volume |-> v]
    /\ UNCHANGED <<playbackVars, channelVars, entity_id, handed, srv_active, cmd, ctl>>

\* _handle_ws_message for an airplay_devices event (media_player.py 255-276)
HandleWsAirplayDevices(S, A, v) ==
    /\ ws_pc = "reading"
    /\ LET out == ProcessPushDevices(PushDevices(S, A, v), Registry, <<>>)
       IN  /\ is_active' = out.reg.act
           /\ dev_volume' = out.reg.vol
           /\ group_members' = out.ids
    /\ last' = [op |-> "ws_airplay_devices", listed |-> S, active |-> A, volume |-> v]
    /\ UNCHANGED <<playbackVars, channelVars, dict_order, entity_id, handed, srv_active, cmd, ctl>>

\* the devices of an airplay_devices event: those in S, the ones in A active, the
\* ones in B with a volume that is not a number and the others without a volume
MalformedDevices(S, A, B) ==
    LET ids == SortedSeq(S)
    IN  [i \in 1..Len(ids) |->
            [id |-> ids[i], name |-> "speaker", active |-> ids[i] \in A,
             volume |-> IF ids[i] \in B THEN NonNumeric ELSE AbsentNum]]

\* _handle_ws_message for an airplay_devices event with such records: the ValueError
\* is caught at the end of the handler (media_player.py 279-280), after the updates
\* made so far and before the group members are stored
HandleWsMalformedDevices(S, A, B) ==
    /\ ws_pc = "reading"
    /\ LET out == ProcessPushDevicesRaising(MalformedDevices(S, A, B), Registry, <<>>)
       IN  /\ is_active' = out.reg.act
           /\ dev_volume' = out.reg.vol
           /\ group_members' = IF out.raised THEN group_members ELSE out.ids
           /\ last' = [op |-> "ws_malformed_devices", listed |-> S, active |-> A,
                       malformed |-> B, raised |-> out.raised]
    /\ UNCHANGED <<playbackVars, channelVars, dict_order, entity_id, handed, srv_active, cmd, ctl>>

\* _handle_ws_message for a frame without the "data: " prefix (data stays None) or
\* with invalid JSON (json.JSONDecodeError, caught at 277-278)
HandleWsBadFrame(kind) ==
    /\ ws_pc = "reading"
    /\ last' = [op |-> "ws_bad_frame", kind |-> kind]
    /\ UNCHANGED <<playbackVars, channelVars, registryVars, group_members, srv_active,
                   cmd, ctl>>

----------------------------------------------------------------------------
(* Satellite entity commands: AppleMusicAirPlayDevice *)

\* VOLUME_STEP and DEFAULT_VOLUME_ON_ENABLE, in thousandths
VOLUME_STEP == 50
DEFAULT_VOLUME_ON_ENABLE == 200

\* a satellite command in flight: its name, where it waits, its locals, and (after) the
\* command on the same entity whose successful return immediately preceded the call
IdleCmd == [op |-> "none", pc |-> "idle", list |-> <<>>, level |-> 0, rounded |-> 0,
            members |-> <<>>, after |-> "none"]

\* the hub can call a satellite entity once it is added, one call per entity at a time
CanCall(d) ==
    /\ ~removed
    /\ Registered(dict_order, d)
    /\ entity_id[d] # NoEntity
    /\ cmd[d].op = "none"

\* round(volume / VOLUME_STEP): the nearest whole number of steps.  At an exact tie the
\* float quotient lands on either side of .5, so both neighbours are outcomes.
RoundSteps(level) ==
    LET fl == level \div VOLUME_STEP
        r  == level % VOLUME_STEP
    IN  IF 2 * r < VOLUME_STEP THEN {fl}
        ELSE IF 2 * r > VOLUME_STEP THEN {fl + 1}
        ELSE {fl, fl + 1}

\* A mutant of RoundedVolumes: the level is truncated to a step, not rounded
RoundedVolumes_Truncate(level) ==
    {Clamp(0, 100, (level \div VOLUME_STEP) * (VOLUME_STEP \div 10))}

\* rounded_volume of async_set_volume_level (airplay_device.py 114-117), in percent;
\* level = int(round(rounded_volume * 100)) is the same number
RoundedVolumes(level) ==
    {Clamp(0, 100, k * (VOLUME_STEP \div 10)) : k \in RoundSteps(level)}

\* async_set_volume_level up to its POST /airplay/set_volume
SetVolumeCall(d, op, level, rounded) ==
    cmd' = [cmd EXCEPT ![d] = [IdleCmd EXCEPT !.op = op, !.pc = "vol",
                                              !.level = level, !.rounded = rounded,
                                              !.members = cmd[d].members,
                                              !.list = cmd[d].list,
                                              !.after = cmd[d].after]]

\* the hub calls async_set_volume_level(volume)
AsyncSetVolumeLevel(d, level) ==
    /\ CanCall(d)
    /\ \E rounded \in RoundedVolumes(level) : SetVolumeCall(d, "set_volume", level, rounded)
    /\ last' = [op |-> "call_set_volume", dev |-> d, level |-> level]
    /\ UNCHANGED <<playbackVars, channelVars, registryVars, group_members, srv_active, ctl>>

\* main_player._update_group_members() as the satellites reach it: skipped when the
\* player_ref lookup yields None
NotifyMainPlayer(act) ==
    IF SatellitePlayerRef # NoPlayer
    THEN group_members' = ActiveEntityIds(dict_order, act, entity_id)
    ELSE UNCHANGED group_members

\* the answer to POST /airplay/set_volume (airplay_device.py 122-130), and what the
\* caller does after it: async_turn_on notifies the main player (164-167)
SetVolumeResponse(d, st) ==
    /\ cmd[d].pc = "vol"
    /\ dev_volume' = IF st = "200" THEN [dev_volume EXCEPT ![d] = cmd[d].rounded]
                     ELSE dev_volume
    /\ IF cmd[d].op = "turn_on" THEN NotifyMainPlayer(is_active)
       ELSE UNCHANGED group_members
    /\ cmd' = [cmd EXCEPT ![d] = IdleCmd]
    /\ last' = [op |-> cmd[d].op, dev |-> d, result |-> "returned", status |-> st,
                level |-> cmd[d].level, pushed |-> cmd[d].rounded,
                members |-> cmd[d].members, list |-> cmd[d].list,
                after |-> cmd[d].after]
    /\ UNCHANGED <<playbackVars, channelVars, dict_order, is_active, entity_id, handed,
                   srv_active, ctl>>

\* the hub calls async_turn_on, async_turn_off or unjoin_player: each starts with
\* _get_active_device_ids
SatelliteCall(d, op) ==
    /\ CanCall(d)
    /\ cmd' = [cmd EXCEPT ![d] =
                [IdleCmd EXCEPT !.op = op, !.pc = "get",
                                !.after = IF /\ last.op \in {"turn_on", "turn_off", "unjoin"}
                                             /\ last.dev = d
                                             /\ last.result = "returned"
                                             /\ last.status = "200"
                                          THEN last.op ELSE "none"]]
    /\ last' = [op |-> "call_" \o op, dev |-> d]
    /\ UNCHANGED <<playbackVars, channelVars, registryVars, group_members, srv_active, ctl>>

\* list.remove(x) when x is in the list
Remove(list, x) == SelectSeq(list, LAMBDA y : y # x)

\* A mutant of GetActiveDeviceIds: async_turn_on appends its id without looking for it
GetActiveDeviceIds_AlwaysAppend(d, st) ==
    /\ cmd[d].pc = "get"
    /\ LET active_ids == IF st = "200" THEN SortedSeq(srv_active) ELSE <<>>
           edited == IF cmd[d].op = "turn_on" THEN Append(active_ids, d)
                     ELSE Remove(active_ids, d)
       IN  cmd' = [cmd EXCEPT ![d].pc = "post", ![d].list = edited]
    /\ last' = [op |-> "get_active_device_ids", dev |-> d, status |-> st]
    /\ UNCHANGED <<playbackVars, channelVars, registryVars, group_members, srv_active, ctl>>

\* _get_active_device_ids returns (airplay_device.py 208-221) and the caller edits the
\* list: async_turn_on appends its id if absent, the others remove it
GetActiveDeviceIds(d, st) ==
    /\ cmd[d].pc = "get"
    /\ LET active_ids == IF st = "200" THEN SortedSeq(srv_active) ELSE <<>>
           edited == IF cmd[d].op = "turn_on"
                     THEN IF d \in Range(active_ids) THEN active_ids
                          ELSE Append(active_ids, d)
                     ELSE Remove(active_ids, d)
       IN  cmd' = [cmd EXCEPT ![d].pc = "post", ![d].list = edited]
    /\ last' = [op |-> "get_active_device_ids", dev |-> d, status |-> st]
    /\ UNCHANGED <<playbackVars, channelVars, registryVars, group_members, srv_active, ctl>>

\* A mutant of SetActiveResponse: async_turn_off and the unjoin reset the volume too
SetActiveResponse_VolumeAlways(d, st) ==
    /\ cmd[d].pc = "post"
    /\ srv_active' = IF st = "200" THEN Range(cmd[d].list) ELSE srv_active
    /\ IF st = "200"
       THEN /\ is_active' = [is_active EXCEPT ![d] = (cmd[d].op = "turn_on")]
            /\ \E rounded \in RoundedVolumes(DEFAULT_VOLUME_ON_ENABLE) :
                  SetVolumeCall(d, cmd[d].op, DEFAULT_VOLUME_ON_ENABLE, rounded)
            /\ last' = [op |-> "set_active_ok", dev |-> d]
            /\ UNCHANGED group_members
       ELSE /\ IF st = "200"
               THEN /\ is_active' = [is_active EXCEPT ![d] = FALSE]
                    /\ NotifyMainPlayer(is_active')
               ELSE UNCHANGED <<is_active, group_members>>
            /\ cmd' = [cmd EXCEPT ![d] = IdleCmd]
            /\ last' = [op |-> cmd[d].op, dev |-> d, status |-> st,
                        result |-> IF st = "exc" /\ cmd[d].op = "unjoin"
                                   THEN "raised" ELSE "returned",
                        level |-> 0, pushed |-> 0,
                        members |-> <<>>, list |-> cmd[d].list,
                        after |-> cmd[d].after]
    /\ UNCHANGED <<playbackVars, channelVars, dict_order, dev_volume, entity_id, handed, ctl>>

\* A mutant of SetActiveResponse: the server adds or removes the calling device
\* in its own set instead of replacing the set by the pushed list
SetActiveResponse_Atomic(d, st) ==
    /\ cmd[d].pc = "post"
    /\ srv_active' = IF st # "200" THEN srv_active
                     ELSE IF cmd[d].op = "turn_on" THEN srv_active \cup {d}
                     ELSE srv_active \ {d}
    /\ IF st = "200" /\ cmd[d].op = "turn_on"
       THEN /\ is_active' = [is_active EXCEPT ![d] = TRUE]
            /\ \E rounded \in RoundedVolumes(DEFAULT_VOLUME_ON_ENABLE) :
                  SetVolumeCall(d, "turn_on", DEFAULT_VOLUME_ON_ENABLE, rounded)
            /\ last' = [op |-> "set_active_ok", dev |-> d]
            /\ UNCHANGED group_members
       ELSE /\ IF st = "200"
               THEN /\ is_active' = [is_active EXCEPT ![d] = FALSE]
                    /\ NotifyMainPlayer(is_active')
               ELSE UNCHANGED <<is_active, group_members>>
            /\ cmd' = [cmd EXCEPT ![d] = IdleCmd]
            /\ last' = [op |-> cmd[d].op, dev |-> d, status |-> st,
                        result |-> IF st = "exc" /\ cmd[d].op = "unjoin"
                                   THEN "raised" ELSE "returned",
                        level |-> 0, pushed |-> 0,
                        members |-> <<>>, list |-> cmd[d].list,
                        after |-> cmd[d].after]
    /\ UNCHANGED <<playbackVars, channelVars, dict_order, dev_volume, entity_id, handed, ctl>>

\* the answer to POST /airplay/set_active in async_turn_on (149-172), async_turn_off
\* (188-206) and _async_unjoin_player (271-302)
SetActiveResponse(d, st) ==
    /\ cmd[d].pc = "post"
    /\ srv_active' = IF st = "200" THEN Range(cmd[d].list) ELSE srv_active
    /\ IF st = "200" /\ cmd[d].op = "turn_on"
       THEN /\ is_active' = [is_active EXCEPT ![d] = TRUE]
            /\ \E rounded \in RoundedVolumes(DEFAULT_VOLUME_ON_ENABLE) :
                  SetVolumeCall(d, "turn_on", DEFAULT_VOLUME_ON_ENABLE, rounded)
            /\ last' = [op |-> "set_active_ok", dev |-> d]
            /\ UNCHANGED group_members
       ELSE /\ IF st = "200"
               THEN /\ is_active' = [is_active EXCEPT ![d] = FALSE]
                    /\ NotifyMainPlayer(is_active')
               ELSE UNCHANGED <<is_active, group_members>>
            /\ cmd' = [cmd EXCEPT ![d] = IdleCmd]
            /\ last' = [op |-> cmd[d].op, dev |-> d, status |-> st,
                        result |-> IF st = "exc" /\ cmd[d].op = "unjoin"
                                   THEN "raised" ELSE "returned",
                        level |-> 0, pushed |-> 0,
                        members |-> <<>>, list |-> cmd[d].list,
                        after |-> cmd[d].after]
    /\ UNCHANGED <<playbackVars, channelVars, dict_order, dev_volume, entity_id, handed, ctl>>

\* A mutant of JoinAccepted: any single-entity request is accepted
JoinAccepted_AnySingle(members) == Len(members) = 1

\* the test of AppleMusicAirPlayDevice.async_join_players (airplay_device.py 310-314)
JoinAccepted(members) ==
    /\ Len(members) = 1
    /\ SatellitePlayerRef # NoPlayer
    /\ ControllerEntityId = members[1]

\* the hub calls AppleMusicAirPlayDevice.async_join_players(group_members)
SatelliteJoinPlayers(d, members) ==
    /\ CanCall(d)
    /\ IF JoinAccepted(members)
       THEN /\ is_active' = [is_active EXCEPT ![d] = TRUE]
            /\ group_members' = Append(group_members, entity_id[d])
            /\ \E rounded \in RoundedVolumes(DEFAULT_VOLUME_ON_ENABLE) :
                  cmd' = [cmd EXCEPT ![d] =
                            [IdleCmd EXCEPT !.op = "join", !.pc = "vol",
                                            !.level = DEFAULT_VOLUME_ON_ENABLE,
                                            !.rounded = rounded, !.members = members]]
            /\ last' = [op |-> "join_accepted", dev |-> d, members |-> members]
       ELSE /\ last' = [op |-> "join", dev |-> d, result |-> "ValueError", status |-> "",
                        level |-> 0, pushed |-> 0, members |-> members, list |-> <<>>,
                        after |-> "none"]
            /\ UNCHANGED <<is_active, group_members, cmd>>
    /\ UNCHANGED <<playbackVars, channelVars, dict_order, dev_volume, entity_id, handed,
                   srv_active, ctl>>

----------------------------------------------------------------------------
(* Main-player grouping commands: CortlandCastController *)

\* the main-player command in flight: its name, where it waits, and its arguments
IdleCtl == [op |-> "none", pc |-> "idle", members |-> <<>>, device_ids |-> <<>>,
            level |-> 0, flag |-> FALSE, mode |-> REPEAT_OFF, media |-> <<>>]

\* entity ids a join request can name
EntityUniverse ==
    {ControllerEntityId, OtherEntityId} \cup {SatelliteEntityId(d) : d \in DeviceIds}

\* the entity lists of join requests: every list of at most MaxRequest entity ids
JoinRequests == UNION {[1..n -> EntityUniverse] : n \in 0..MaxRequest}

\* the entity ids of the satellites of the devices in S, in ascending order of device id
SatelliteList(S) ==
    LET ids == SortedSeq(S)
    IN  [i \in 1..Len(ids) |-> SatelliteEntityId(ids[i])]

\* join requests to the main player: at most MaxRequest distinct entities, satellites
\* first, with or without an entity that is no satellite
ControllerRequests ==
    {SatelliteList(S) \o other :
        S \in SUBSET DeviceIds, other \in {<<>>, <<OtherEntityId>>}}
    \cap JoinRequests

\* join requests to a satellite that name one entity
SingleRequests == {<<ControllerEntityId>>, <<OtherEntityId>>}

\* device_ids of CortlandCastController.async_join_players (media_player.py 792-807):
\* the requested entity ids that entity_to_device_map holds, mapped to device ids
ResolveDeviceIds(members) ==
    LET mapped(e) == \E d \in DeviceIds :
                        Registered(dict_order, d) /\ entity_id[d] # NoEntity /\ entity_id[d] = e
        sel == SelectSeq(members, mapped)
    IN  [i \in 1..Len(sel) |->
            CHOOSE d \in DeviceIds : Registered(dict_order, d) /\ entity_id[d] = sel[i]]

\* the hub calls CortlandCastController.async_join_players(group_members)
ControllerJoinPlayers(members) ==
    /\ ~removed
    /\ ctl.op = "none"
    /\ ctl' = [IdleCtl EXCEPT !.op = "join_players", !.pc = "post", !.members = members,
                              !.device_ids = ResolveDeviceIds(members)]
    /\ last' = [op |-> "call_join_players", members |-> members]
    /\ UNCHANGED <<playbackVars, channelVars, registryVars, group_members, srv_active, cmd>>

\* the hub calls CortlandCastController.unjoin_player
ControllerUnjoinPlayer ==
    /\ ~removed
    /\ ctl.op = "none"
    /\ ctl' = [IdleCtl EXCEPT !.op = "unjoin", !.pc = "post"]
    /\ last' = [op |-> "call_controller_unjoin"]
    /\ UNCHANGED <<playbackVars, channelVars, registryVars, group_members, srv_active, cmd>>

\* A mutant of ControllerSetActiveResponse: the flags and the group members are
\* stored whatever the reply is
ControllerSetActiveResponse_AnyStatus(st) ==
    /\ ctl.pc = "post"
    /\ srv_active' = IF st = "200" THEN Range(ctl.device_ids) ELSE srv_active
    /\ is_active' = [d \in DeviceIds |->
                        IF Registered(dict_order, d)
                        THEN d \in Range(ctl.device_ids)
                        ELSE is_active[d]]
    /\ group_members' = ctl.members
    /\ ctl' = IdleCtl
    /\ last' = [op |-> "controller_" \o ctl.op, status |-> st,
                result |-> IF st = "exc" /\ ctl.op = "unjoin" THEN "raised" ELSE "returned",
                members |-> ctl.members, device_ids |-> ctl.device_ids,
                before |-> {d \in DeviceIds : is_active[d]}]
    /\ UNCHANGED <<playbackVars, channelVars, dict_order, dev_volume, entity_id, handed, cmd>>

\* A mutant of ControllerSetActiveResponse: devices outside the resolved list keep
\* their active flag
ControllerSetActiveResponse_KeepOthers(st) ==
    /\ ctl.pc = "post"
    /\ IF st = "200"
       THEN /\ srv_active' = Range(ctl.device_ids)
            /\ is_active' = [d \in DeviceIds |->
                                IF Registered(dict_order, d)
                                THEN d \in Range(ctl.device_ids) \/ is_active[d]
                                ELSE is_active[d]]
            /\ group_members' = ctl.members
       ELSE UNCHANGED <<srv_active, is_active, group_members>>
    /\ ctl' = IdleCtl
    /\ last' = [op |-> "controller_" \o ctl.op, status |-> st,
                result |-> IF st = "exc" /\ ctl.op = "unjoin" THEN "raised" ELSE "returned",
                members |-> ctl.members, device_ids |-> ctl.device_ids,
                before |-> {d \in DeviceIds : is_active[d]}]
    /\ UNCHANGED <<playbackVars, channelVars, dict_order, dev_volume, entity_id, handed, cmd>>

\* the answer to POST /airplay/set_active in async_join_players (812-833) and
\* _async_unjoin_player (869-889)
ControllerSetActiveResponse(st) ==
    /\ ctl.pc = "post"
    /\ IF st = "200"
       THEN /\ srv_active' = Range(ctl.device_ids)
            /\ is_active' = [d \in DeviceIds |->
                                IF Registered(dict_order, d)
                                THEN d \in Range(ctl.device_ids)
                                ELSE is_active[d]]
            /\ group_members' = ctl.members
       ELSE UNCHANGED <<srv_active, is_active, group_members>>
    /\ ctl' = IdleCtl
    /\ last' = [op |-> "controller_" \o ctl.op, status |-> st,
                result |-> IF st = "exc" /\ ctl.op = "unjoin" THEN "raised" ELSE "returned",
                members |-> ctl.members, device_ids |-> ctl.device_ids,
                before |-> {d \in DeviceIds : is_active[d]}]
    /\ UNCHANGED <<playbackVars, channelVars, dict_order, dev_volume, entity_id, handed, cmd>>

\* CortlandCastController._update_group_members (media_player.py 835-849); again
\* tells whether the call before it was one too
UpdateGroupMembers ==
    /\ group_members' = ActiveEntityIds(dict_order, is_active, entity_id)
    /\ last' = [op |-> "update_group_members", again |-> last.op = "update_group_members"]
    /\ UNCHANGED <<playbackVars, channelVars, registryVars, srv_active, cmd, ctl>>

----------------------------------------------------------------------------
(* Main-player transport commands: CortlandCastController *)

\* the commands that post one request and read its status (media_player.py 717-765)
TransportOps == {"media_play", "media_pause", "media_next_track", "media_previous_track",
                 "set_volume_level", "set_shuffle", "set_repeat", "media_seek"}

\* media ids are kept split at ":" (media_id.split(":", 4)): a list of at most 5 parts
MediaIds == {<<"album", "Abbey Road">>, <<"track", "Abbey Road", "Something">>,
             <<"track", "playlist", "Mix", "Something">>, <<"Abbey Road">>,
             <<"playlist", "Mix">>, <<"artist", "Queen">>, <<"album", "Vol", " 1">>}

\* the transport commands the hub calls, with their arguments: volumes in percent
MainCalls ==
    {[IdleCtl EXCEPT !.op = op] :
        op \in {"media_play", "media_pause", "media_next_track", "media_previous_track",
                "media_seek"}}
    \cup {[IdleCtl EXCEPT !.op = "set_volume_level", !.level = v] : v \in {0, 40}}
    \cup {[IdleCtl EXCEPT !.op = "set_shuffle", !.flag = b] : b \in BOOLEAN}
    \cup {[IdleCtl EXCEPT !.op = "set_repeat", !.mode = r] :
              r \in {REPEAT_OFF, REPEAT_ONE, REPEAT_ALL}}
    \cup {[IdleCtl EXCEPT !.op = "play_media", !.media = id] : id \in MediaIds}

\* A mutant of MediaData: a playlist track is posted as a track of the playlist
MediaData_PlaylistTrack(parts) ==
    IF parts[1] = "track" /\ Len(parts) = 4 /\ parts[2] = "playlist"
    THEN [type |-> "track", name |-> <<parts[4]>>, album |-> parts[3]]
    ELSE IF parts[1] = "track" /\ Len(parts) = 3
    THEN [type |-> "track", name |-> <<parts[3]>>, album |-> parts[2]]
    ELSE [type |-> parts[1], name |-> Tail(parts), album |-> ""]

\* media_data of async_play_media (media_player.py 677-704), the name of the last
\* branch being the remaining parts
MediaData(parts) ==
    IF parts[1] = "track" /\ Len(parts) = 4 /\ parts[2] = "playlist"
    THEN [type |-> "playlist", name |-> <<parts[3]>>, album |-> ""]
    ELSE IF parts[1] = "track" /\ Len(parts) = 3
    THEN [type |-> "track", name |-> <<parts[3]>>, album |-> parts[2]]
    ELSE [type |-> parts[1], name |-> Tail(parts), album |-> ""]

\* the hub calls a transport command or async_play_media, which runs up to its request;
\* async_play_media of a media id without ":" returns without one (674)
MainPlayerCall(call) ==
    /\ ~removed
    /\ ctl.op = "none"
    /\ IF call.op = "play_media" /\ Len(call.media) < 2
       THEN /\ ctl' = IdleCtl
            /\ last' = [op |-> "main_play_media", status |-> "none", result |-> "returned",
                        call |-> call]
       ELSE /\ ctl' = [call EXCEPT !.pc = "http"]
            /\ last' = [op |-> "call_main", call |-> call]
    /\ UNCHANGED <<playbackVars, channelVars, registryVars, group_members, srv_active, cmd>>

\* A mutant of MainPlayerResponse_Fields: the local state is set whatever the status
MainPlayerResponse_Fields_Optimistic(st) ==
    /\ state' = IF ctl.op \in {"media_play", "play_media"} THEN PLAYING
                ELSE IF ctl.op = "media_pause" THEN PAUSED
                ELSE state
    /\ volume_level' = IF ctl.op = "set_volume_level" THEN ctl.level ELSE volume_level
    /\ attr_shuffle' = IF ctl.op = "set_shuffle" THEN ctl.flag ELSE attr_shuffle
    /\ attr_repeat' = IF ctl.op = "set_repeat" THEN ctl.mode ELSE attr_repeat

\* what the command stores once its request is answered (706-765): the status is read
\* by play, pause, set_volume, shuffle, repeat and play_media only
MainPlayerResponse_Fields(st) ==
    /\ state' = IF st = "200" /\ ctl.op \in {"media_play", "play_media"} THEN PLAYING
                ELSE IF st = "200" /\ ctl.op = "media_pause" THEN PAUSED
                ELSE state
    /\ volume_level' = IF st = "200" /\ ctl.op = "set_volume_level" THEN ctl.level
                       ELSE volume_level
    /\ attr_shuffle' = IF st = "200" /\ ctl.op = "set_shuffle" THEN ctl.flag
                       ELSE attr_shuffle
    /\ attr_repeat' = IF st = "200" /\ ctl.op = "set_repeat" THEN ctl.mode ELSE attr_repeat

\* the request of a transport command or of async_play_media is answered or raises;
\* only async_play_media wraps its request in try/except (706-715)
MainPlayerResponse(st) ==
    /\ ctl.pc = "http"
    /\ MainPlayerResponse_Fields(st)
    /\ ctl' = IdleCtl
    /\ last' = [op |-> "main_" \o ctl.op, status |-> st,
                result |-> IF st = "exc" /\ ctl.op \in TransportOps
                           THEN "raised" ELSE "returned",
                call |-> ctl,
                json |-> IF ctl.op = "play_media" THEN MediaData(ctl.media)
                         ELSE [type |-> "", name |-> <<>>, album |-> ""]]
    /\ UNCHANGED <<media_title, media_artist, media_album_name, media_position,
                   media_duration, entity_picture, channelVars, registryVars,
                   group_members, srv_active, cmd>>

----------------------------------------------------------------------------
(* Push channel and polling fallback: CortlandCastController *)

\* a now_playing dict
Snapshot(st, ip, title, name, album, pos, dur, vol) ==
    [state |-> st, is_playing |-> ip, title |-> title, name |-> name, artist |-> "",
     album |-> album, position |-> pos, duration |-> dur, volume |-> vol,
     shuffle |-> "absent", repeat |-> ""]

\* the snapshots the server answers polls and sends now_playing events with
ChannelSnapshots ==
    {Snapshot(s_playing, "true", "Song", "", "Album", 30, 200, 40),
     Snapshot(s_paused, "false", "Song", "", "My Album", 31, 200, AbsentNum),
     Snapshot(<<>>, "absent", "", "", "", AbsentNum, AbsentNum, AbsentNum)}

\* the levels of volume events: none, zero, in range, above the range
PushVolumes == {AbsentNum, 0, 40, 150}

\* the modes of repeat events: none, the three modes, another word
PushRepeatModes == {"", "off", "one", "all", "shuffle"}

\* should_poll (media_player.py 184-187)
ShouldPoll == ~ws_connected

\* async_added_to_hass up to its first await: the initial poll's GET /now_playing
AsyncAddedToHass ==
    /\ ws_pc = "not_started"
    /\ poll_pc = "idle"
    /\ ~removed
    /\ poll_pc' = "added"
    /\ last' = [op |-> "added_to_hass"]
    /\ UNCHANGED <<playbackVars, ws_connected, ws_pc, ws_failures, removed, registryVars,
                   group_members, srv_active, cmd, ctl>>

\* the test of async_update (media_player.py 296)
AsyncUpdate_Guard == ~ws_connected

\* the hub's periodic update: async_update up to GET /now_playing
AsyncUpdate ==
    /\ ws_pc # "not_started"
    /\ ~removed
    /\ poll_pc = "idle"
    /\ ShouldPoll
    /\ AsyncUpdate_Guard
    /\ poll_pc' = "update"
    /\ last' = [op |-> "async_update", connected |-> ws_connected]
    /\ UNCHANGED <<playbackVars, ws_connected, ws_pc, ws_failures, removed, registryVars,
                   group_members, srv_active, cmd, ctl>>

\* the answer to GET /now_playing in _poll_now_playing (287-292); async_added_to_hass
\* then starts the _maintain_websocket task (177)
PollResponse(st, data) ==
    /\ poll_pc \in {"added", "update"}
    /\ IF st = "200" THEN UpdateFromNowPlaying(data, FALSE) ELSE UNCHANGED playbackVars
    /\ ws_pc' = IF poll_pc = "added" THEN "connecting" ELSE ws_pc
    /\ poll_pc' = "idle"
    /\ last' = [op |-> "poll", status |-> st, data |-> data, include_position |-> FALSE]
    /\ UNCHANGED <<ws_connected, ws_failures, removed, registryVars, group_members,
                   srv_active, cmd, ctl>>

\* ws_connect returns or raises in _maintain_websocket (194-195, 202-206)
WsConnect(ok) ==
    /\ ws_pc = "connecting"
    /\ ws_connected' = ok
    /\ ws_pc' = IF ok THEN "reading" ELSE "sleeping"
    /\ ws_failures' = IF ok THEN 0
                      ELSE IF ws_failures < MaxFailures THEN ws_failures + 1
                      ELSE ws_failures
    /\ last' = [op |-> "ws_connect", ok |-> ok]
    /\ UNCHANGED <<playbackVars, poll_pc, removed, registryVars, group_members,
                   srv_active, cmd, ctl>>

\* the state a playback_state event names (media_player.py 227-231)
PlaybackStateOf(st) ==
    LET state_str == Lower(st)
    IN  IF state_str = s_playing THEN PLAYING
        ELSE IF state_str = s_paused THEN PAUSED
        ELSE IDLE

\* a now_playing event (media_player.py 222-224)
HandleWsNowPlaying(data) ==
    /\ ws_pc = "reading"
    /\ UpdateFromNowPlaying(data, TRUE)
    /\ last' = [op |-> "ws_now_playing", status |-> "200", data |-> data,
                include_position |-> TRUE]
    /\ UNCHANGED <<channelVars, registryVars, group_members, srv_active, cmd, ctl>>

\* a ping event (media_player.py 220-221)
HandleWsPing ==
    /\ ws_pc = "reading"
    /\ last' = [op |-> "ws_ping"]
    /\ UNCHANGED <<playbackVars, channelVars, registryVars, group_members, srv_active,
                   cmd, ctl>>

\* A mutant of HandleWsPlaybackState: the event also restarts the position
HandleWsPlaybackState_WithPosition(st) ==
    /\ ws_pc = "reading"
    /\ state' = PlaybackStateOf(st)
    /\ media_position' = 0
    /\ last' = [op |-> "ws_playback_state", state |-> st]
    /\ UNCHANGED <<volume_level, media_title, media_artist, media_album_name,
                   media_duration, entity_picture, attr_shuffle, attr_repeat,
                   channelVars, registryVars, group_members, srv_active, cmd, ctl>>

\* a playback_state event (media_player.py 225-232)
HandleWsPlaybackState(st) ==
    /\ ws_pc = "reading"
    /\ state' = PlaybackStateOf(st)
    /\ last' = [op |-> "ws_playback_state", state |-> st]
    /\ UNCHANGED <<volume_level, media_title, media_artist, media_album_name, media_position,
                   media_duration, entity_picture, attr_shuffle, attr_repeat,
                   channelVars, registryVars, group_members, srv_active, cmd, ctl>>

\* a volume event (media_player.py 233-237): the level is stored as sent, unclamped,
\* and a level of 0 or a missing one is skipped
HandleWsVolume(vol) ==
    /\ ws_pc = "reading"
    /\ volume_level' = IF vol # AbsentNum /\ vol # 0 THEN vol ELSE volume_level
    /\ last' = [op |-> "ws_volume", volume |-> vol]
    /\ UNCHANGED <<state, media_title, media_artist, media_album_name, media_position,
                   media_duration, entity_picture, attr_shuffle, attr_repeat,
                   channelVars, registryVars, group_members, srv_active, cmd, ctl>>

\* a shuffle event (media_player.py 238-243): only a truthy flag is stored
HandleWsShuffle(enabled) ==
    /\ ws_pc = "reading"
    /\ attr_shuffle' = IF Truthy(enabled) THEN TRUE ELSE attr_shuffle
    /\ last' = [op |-> "ws_shuffle", enabled |-> enabled]
    /\ UNCHANGED <<state, volume_level, media_title, media_artist, media_album_name,
                   media_position, media_duration, entity_picture, attr_repeat,
                   channelVars, registryVars, group_members, srv_active, cmd, ctl>>

\* a repeat event (media_player.py 244-253)
HandleWsRepeat(mode) ==
    /\ ws_pc = "reading"
    /\ attr_repeat' = IF mode # "" THEN RepeatOf(mode) ELSE attr_repeat
    /\ last' = [op |-> "ws_repeat", mode |-> mode]
    /\ UNCHANGED <<state, volume_level, media_title, media_artist, media_album_name,
                   media_position, media_duration, entity_picture, attr_shuffle,
                   channelVars, registryVars, group_members, srv_active, cmd, ctl>>

\* A mutant of WsClose: the flag is left as it is when the read loop ends
WsClose_KeepFlag(how) ==
    /\ ws_pc = "reading"
    /\ ws_pc' = "sleeping"
    /\ last' = [op |-> "ws_close", how |-> how]
    /\ UNCHANGED <<playbackVars, ws_connected, ws_failures, poll_pc, removed, registryVars,
                   group_members, srv_active, cmd, ctl>>

\* the read loop ends: a Close frame, the end of the stream, or an error (200-206)
WsClose(how) ==
    /\ ws_pc = "reading"
    /\ ws_connected' = FALSE
    /\ ws_pc' = "sleeping"
    /\ last' = [op |-> "ws_close", how |-> how]
    /\ UNCHANGED <<playbackVars, ws_failures, poll_pc, removed, registryVars,
                   group_members, srv_active, cmd, ctl>>

\* A mutant of WsSleepDone_Guard: the loop gives up after two failed attempts in a row
WsSleepDone_Guard_GiveUp == ws_failures < 2

\* the loop of _maintain_websocket is `while True` (191): nothing ends it
WsSleepDone_Guard == TRUE

\* asyncio.sleep(5) returns and the loop starts over (206, 191-194)
WsSleepDone ==
    /\ ws_pc = "sleeping"
    /\ WsSleepDone_Guard
    /\ ws_pc' = "connecting"
    /\ last' = [op |-> "ws_sleep_done"]
    /\ UNCHANGED <<playbackVars, ws_connected, ws_failures, poll_pc, removed,
                   registryVars, group_members, srv_active, cmd, ctl>>

\* async_will_remove_from_hass (179-182): the task is cancelled where it waits; the
\* CancelledError is no Exception, so line 204 does not run
AsyncWillRemoveFromHass ==
    /\ ~removed
    /\ removed' = TRUE
    /\ ws_pc' = IF ws_pc = "not_started" THEN ws_pc ELSE "cancelled"
    /\ last' = [op |-> "will_remove_from_hass"]
    /\ UNCHANGED <<playbackVars, ws_connected, ws_failures, poll_pc, registryVars,
                   group_members, srv_active, cmd, ctl>>

----------------------------------------------------------------------------
(* Media browsing: CortlandCastController.async_browse_media *)

\* the characters of the names the server lists (a name is a string; its characters
\* are what strip(), name[0], upper() and isalpha() look at)
Chars ==
    ("Air" :> <<"A", "i", "r">>) @@
    ("Bach" :> <<"B", "a", "c", "h">>) @@
    ("3 Doors Down" :> <<"3", " ", "D", "o", "o", "r", "s", " ", "D", "o", "w", "n">>) @@
    ("apple" :> <<"a", "p", "p", "l", "e">>) @@
    (" Beck" :> <<" ", "B", "e", "c", "k">>) @@
    ("Beck" :> <<"B", "e", "c", "k">>) @@
    ("  " :> <<" ", " ">>) @@
    ("" :> <<>>)

\* the names a server listing can hold
Names == DOMAIN Chars

\* the string with the given characters
Text(chars) == CHOOSE n \in Names : Chars[n] = chars

\* str.upper() on one character
UpperChar(c) ==
    IF \E i \in 1..Len(LowerLetters) : LowerLetters[i] = c
    THEN UpperLetters[CHOOSE i \in 1..Len(LowerLetters) : LowerLetters[i] = c]
    ELSE c

\* str.isalpha() on one character
IsAlpha(c) == c \in Range(UpperLetters) \cup Range(LowerLetters)

\* str.strip() on a list of characters
RECURSIVE Strip(_)
Strip(chars) ==
    IF chars = <<>> THEN <<>>
    ELSE IF Head(chars) = " " THEN Strip(Tail(chars))
    ELSE IF chars[Len(chars)] = " " THEN Strip(SubSeq(chars, 1, Len(chars) - 1))
    ELSE chars

\* the stripped names of a flat listing that are not empty, as strings (media_player.py
\* 448-450, 507-509)
StrippedItems(items) ==
    LET stripped == [i \in 1..Len(items) |-> Text(Strip(Chars[items[i]]))]
    IN  SelectSeq(stripped, LAMBDA n : n # "")

\* A mutant of FirstChar: the first character is not upper-cased
FirstChar_AsWritten(name) ==
    LET first_char == Chars[name][1]
    IN  IF IsAlpha(first_char) THEN first_char ELSE "#"

\* first_char of a stripped name (media_player.py 451-453)
FirstChar(name) ==
    LET first_char == UpperChar(Chars[name][1])
    IN  IF IsAlpha(first_char) THEN first_char ELSE "#"

\* letter_groups[letter] (media_player.py 446-456)
LetterGroup(letter, items) ==
    SelectSeq(StrippedItems(items), LAMBDA n : FirstChar(n) = letter)

\* letters (media_player.py 459-461): the letters that have a group, sorted, then "#"
\* if it has one
LetterKeys(items) ==
    LET keys == {FirstChar(StrippedItems(items)[i]) : i \in 1..Len(StrippedItems(items))}
    IN  SelectSeq(UpperLetters, LAMBDA l : l \in keys)
        \o (IF "#" \in keys THEN <<"#">> ELSE <<>>)

\* a child of a browse result; count is the number an "X (n)" title carries
Child(title, count, id, can_play, can_expand) ==
    [title |-> title, count |-> count, id |-> id, can_play |-> can_play,
     can_expand |-> can_expand]

\* the children of the albums and artists views (media_player.py 463-473)
LetterDirectories(category, items) ==
    LET letters == LetterKeys(items)
    IN  [i \in 1..Len(letters) |->
            Child(<<letters[i]>>, Len(LetterGroup(letters[i], items)),
                  <<category, letters[i]>>, FALSE, TRUE)]

\* the characters of the names in code-point order
CodePoints == <<" ", "3">> \o UpperLetters \o LowerLetters

CodePoint(c) == CHOOSE i \in 1..Len(CodePoints) : CodePoints[i] = c

\* a < b on strings, by their characters
RECURSIVE CharsLess(_, _)
CharsLess(a, b) ==
    IF b = <<>> THEN FALSE
    ELSE IF a = <<>> THEN TRUE
    ELSE IF Head(a) # Head(b) THEN CodePoint(Head(a)) < CodePoint(Head(b))
    ELSE CharsLess(Tail(a), Tail(b))

\* list.sort() on names
RECURSIVE SortedNames(_)
SortedNames(names) ==
    IF names = <<>> THEN <<>>
    ELSE LET rest == SortedNames(Tail(names))
             x == Head(names)
             before == SelectSeq(rest, LAMBDA y : ~CharsLess(Chars[x], Chars[y]))
             after == SelectSeq(rest, LAMBDA y : CharsLess(Chars[x], Chars[y]))
         IN  before \o <<x>> \o after

\* a browse result; has_children is FALSE where BrowseMedia is built without children
Node(title, id, can_play, has_children, children) ==
    [title |-> title, id |-> id, can_play |-> can_play, can_expand |-> TRUE,
     has_children |-> has_children, children |-> children]

\* str.title() of a category
CategoryTitle(category) ==
    IF category = "playlists" THEN "Playlists"
    ELSE IF category = "albums" THEN "Albums"
    ELSE "Artists"

\* the root view (media_player.py 362-397)
RootView ==
    Node(<<"Music Library">>, <<"root">>, FALSE, TRUE,
         <<Child(<<"Playlists">>, AbsentNum, <<"playlists">>, FALSE, TRUE),
           Child(<<"Albums">>, AbsentNum, <<"albums">>, FALSE, TRUE),
           Child(<<"Artists">>, AbsentNum, <<"artists">>, FALSE, TRUE)>>)

\* the view returned for an id no branch handles (media_player.py 668-677): the root's
\* title and id, built without children
FallbackView == Node(<<"Music Library">>, <<"root">>, FALSE, FALSE, <<>>)

\* the children of a letter's view (media_player.py 505-545): the stripped names of
\* the letter, sorted
LetterItems(category, letter, items) ==
    LET names == StrippedItems(items)
        filtered == SelectSeq(names,
                       LAMBDA n : IF letter = "#"
                                  THEN ~IsAlpha(UpperChar(Chars[n][1]))
                                  ELSE UpperChar(Chars[n][1]) = letter)
        sorted == SortedNames(filtered)
        kind == IF category = "playlists" THEN "playlist"
                ELSE IF category = "albums" THEN "album" ELSE "artist"
    IN  [i \in 1..Len(sorted) |-> Child(<<sorted[i]>>, AbsentNum, <<kind, sorted[i]>>,
                                         TRUE, TRUE)]

\* async_browse_media(media_content_id) when its one request, if it makes one, is
\* answered st with the listing items; ids are kept split at ":"
BrowseMedia(id, st, items) ==
    LET got == IF st = "200" THEN items ELSE <<>>
    IN  IF id = <<>> \/ id = <<"root">> THEN RootView
        ELSE IF id = <<"playlists">>
        THEN Node(<<"Playlists">>, id, FALSE, TRUE,
                  [i \in 1..Len(got) |->
                      Child(<<got[i]>>, AbsentNum, <<"playlist", got[i]>>, TRUE, TRUE)])
        ELSE IF id = <<"albums">> \/ id = <<"artists">>
        THEN Node(<<CategoryTitle(id[1])>>, id, FALSE, TRUE, LetterDirectories(id[1], got))
        ELSE IF Len(id) = 2 /\ id[1] \in {"playlists", "albums", "artists"}
        THEN Node(<<CategoryTitle(id[1]), id[2]>>, id, FALSE, TRUE,
                  LetterItems(id[1], id[2], got))
        ELSE IF Len(id) >= 2 /\ id[1] = "playlist"
        THEN Node(<<"Playlist">> \o Tail(id), id, TRUE, TRUE,
                  [i \in 1..Len(got) |->
                      Child(<<got[i]>>, AbsentNum,
                            <<"track", "playlist">> \o Tail(id) \o <<got[i]>>, TRUE, FALSE)])
        ELSE IF Len(id) >= 2 /\ id[1] = "album"
        THEN Node(<<"Album">> \o Tail(id), id, TRUE, TRUE,
                  [i \in 1..Len(got) |->
                      Child(<<got[i]>>, AbsentNum,
                            <<"track">> \o Tail(id) \o <<got[i]>>, TRUE, FALSE)])
        ELSE IF Len(id) >= 2 /\ id[1] = "artist"
        THEN Node(<<"Artist">> \o Tail(id), id, TRUE, TRUE,
                  [i \in 1..Len(got) |->
                      Child(<<got[i]>>, AbsentNum, <<"album", got[i]>>, TRUE, TRUE)])
        ELSE FallbackView

\* longest listing the server answers a browse request with
MaxItems == 3

\* the flat listings of the server
Listings == UNION {[1..n -> Names] : n \in 0..MaxItems}

\* the content ids the hub browses: none, the views the tree links to, unknown ones
BrowseIds ==
    {<<>>, <<"root">>, <<"playlists">>, <<"albums">>, <<"artists">>,
     <<"albums", "A">>, <<"artists", "B">>, <<"artists", "#">>, <<"playlists", "A">>,
     <<"playlist", "Air">>, <<"album", "Air">>, <<"artist", "Bach">>,
     <<"garbage", "token", "x">>, <<"garbage">>, <<"garbage", "A">>,
     <<"albums", "A", "x">>}

\* the ids for which async_browse_media requests a listing from the server
BrowseFetches(id) ==
    \/ id \in {<<"playlists">>, <<"albums">>, <<"artists">>}
    \/ Len(id) = 2 /\ id[1] \in {"playlists", "albums", "artists"}
    \/ Len(id) >= 2 /\ id[1] \in {"playlist", "album", "artist"}

\* the hub calls async_browse_media(media_content_id), which runs up to its request
\* or, for the root and for an id no branch handles, returns at once; the entity's
\* state is not touched
AsyncBrowseMedia(id) ==
    /\ ~removed
    /\ last.op # "call_browse_media"
    /\ last' = IF BrowseFetches(id)
               THEN [op |-> "call_browse_media", id |-> id]
               ELSE [op |-> "browse_media", id |-> id, status |-> "none", items |-> <<>>,
                     result |-> BrowseMedia(id, "none", <<>>)]
    /\ UNCHANGED <<playbackVars, channelVars, registryVars, group_members, srv_active,
                   cmd, ctl>>

\* the listing request of async_browse_media is answered, or fails, and the view is
\* returned
BrowseResponse(st, items) ==
    /\ last.op = "call_browse_media"
    /\ last' = [op |-> "browse_media", id |-> last.id, status |-> st, items |-> items,
                result |-> BrowseMedia(last.id, st, items)]
    /\ UNCHANGED <<playbackVars, channelVars, registryVars, group_members, srv_active,
                   cmd, ctl>>

\* the hub calls async_play_media with the content id of the i-th child of the view
\* it has just browsed (media_player.py 679-683): the call runs up to its request
PlayLeaf(i) ==
    /\ ~removed
    /\ ctl.op = "none"
    /\ last.op = "browse_media"
    /\ last.result.has_children
    /\ i \in 1..Len(last.result.children)
    /\ last.result.children[i].can_play
    /\ Len(last.result.children[i].id) >= 2
    /\ ctl' = [IdleCtl EXCEPT !.op = "play_media", !.pc = "http",
                              !.media = last.result.children[i].id]
    /\ last' = [op |-> "call_play_leaf", from |-> last.id,
                title |-> last.result.children[i].title]
    /\ UNCHANGED <<playbackVars, channelVars, registryVars, group_members, srv_active, cmd>>

----------------------------------------------------------------------------
(* Initial state: the objects as their constructors leave them *)

InitPlayback ==
    /\ state = IDLE
    /\ volume_level = 50
    /\ media_title = ""
    /\ media_artist = ""
    /\ media_album_name = ""
    /\ media_position = AbsentNum
    /\ media_duration = AbsentNum
    /\ entity_picture = <<>>
    /\ attr_shuffle = FALSE
    /\ attr_repeat = REPEAT_OFF
    /\ group_members = <<>>
    /\ ctl = IdleCtl
    /\ last = [op |-> "init"]

InitRegistry ==
    /\ dict_order = <<>>
    /\ is_active = [d \in DeviceIds |-> FALSE]
    /\ dev_volume = [d \in DeviceIds |-> 50]
    /\ entity_id = [d \in DeviceIds |-> NoEntity]
    /\ handed = [d \in DeviceIds |-> 0]
    /\ srv_active = {}
    /\ cmd = [d \in DeviceIds |-> IdleCmd]

\* the controller before async_added_to_hass
InitChannel ==
    /\ ws_connected = FALSE
    /\ ws_pc = "not_started"
    /\ ws_failures = 0
    /\ poll_pc = "idle"
    /\ removed = FALSE

Init == InitPlayback /\ InitRegistry /\ InitChannel

\* the controller once the initial poll was answered with an error and the push
\* channel's first connection attempt succeeded
InitConnected ==
    /\ InitPlayback
    /\ InitRegistry
    /\ ws_connected = TRUE
    /\ ws_pc = "reading"
    /\ ws_failures = 0
    /\ poll_pc = "idle"
    /\ removed = FALSE

\* the registry once discovery has created every device from a listing that shows
\* them inactive, the hub has added their entities and the push channel is connected
InitAllDevices ==
    /\ InitPlayback
    /\ dict_order = SortedSeq(DeviceIds)
    /\ is_active = [d \in DeviceIds |-> FALSE]
    /\ dev_volume = [d \in DeviceIds |-> 50]
    /\ entity_id = [d \in DeviceIds |-> SatelliteEntityId(d)]
    /\ handed = [d \in DeviceIds |-> 1]
    /\ srv_active = {}
    /\ cmd = [d \in DeviceIds |-> IdleCmd]
    /\ ws_connected = TRUE
    /\ ws_pc = "reading"
    /\ ws_failures = 0
    /\ poll_pc = "idle"
    /\ removed = FALSE

\* the registry once discovery has created device 1 from a listing that shows it
\* inactive and the hub has added its entity
InitOneDevice ==
    /\ InitPlayback
    /\ InitChannel
    /\ dict_order = <<1>>
    /\ is_active = [d \in DeviceIds |-> FALSE]
    /\ dev_volume = [d \in DeviceIds |-> 50]
    /\ entity_id = [d \in DeviceIds |-> IF d = 1 THEN SatelliteEntityId(1) ELSE NoEntity]
    /\ handed = [d \in DeviceIds |-> IF d = 1 THEN 1 ELSE 0]
    /\ srv_active = {}
    /\ cmd = [d \in DeviceIds |-> IdleCmd]

----------------------------------------------------------------------------
(* Specifications *)

\* The push channel, the polling fallback and removal
NextChannel ==
    \/ AsyncAddedToHass
    \/ AsyncUpdate
    \/ \E st \in HttpOutcomes, data \in ChannelSnapshots : PollResponse(st, data)
    \/ \E ok \in BOOLEAN : WsConnect(ok)
    \/ \E data \in ChannelSnapshots : HandleWsNowPlaying(data)
    \/ HandleWsPing
    \/ \E how \in {"close", "error"} : WsClose(how)
    \/ WsSleepDone
    \/ AsyncWillRemoveFromHass

SpecChannel == Init /\ [][NextChannel]_vars

\* asyncio runs a task whose sleep has elapsed
FairChannel == SpecChannel /\ WF_vars(WsSleepDone)

\* state fields of snapshots: spellings of the recognized states, no state, another state
StateFields ==
    {s_playing, <<"P","L","A","Y","I","N","G">>, <<"P","l","a","y","i","n","g">>,
     s_paused, <<"P","A","U","S","E","D">>, s_stopped, s_idle, <<>>,
     <<"b","u","f","f","e","r","i","n","g">>}

\* snapshots that vary the fields the playback state is derived from
MergeSnapshots ==
    {Snapshot(st, ip, title, name, "", AbsentNum, AbsentNum, AbsentNum) :
        st \in StateFields, ip \in {"absent", "true", "false"},
        title \in {"", "Song"}, name \in {"", "Name"}}

\* Snapshots merged from polls and from now_playing events
NextMerge ==
    \/ AsyncAddedToHass
    \/ AsyncUpdate
    \/ \E st \in HttpOutcomes, data \in MergeSnapshots : PollResponse(st, data)
    \/ \E ok \in BOOLEAN : WsConnect(ok)
    \/ \E data \in MergeSnapshots : HandleWsNowPlaying(data)
    \/ \E how \in {"close", "error"} : WsClose(how)
    \/ WsSleepDone

SpecMerge == Init /\ [][NextMerge]_vars

\* requested volume levels, in thousandths: the multiples of 0.005 from MaxStepsUnder
\* of them below 0 to MaxStepsOver of them above 1
MaxStepsUnder == 40
MaxStepsOver == 40
Levels == {5 * k : k \in (0 - MaxStepsUnder)..(200 + MaxStepsOver)}

\* Satellite volume requests
NextVolume ==
    \/ \E d \in DeviceIds, level \in Levels : AsyncSetVolumeLevel(d, level)
    \/ \E d \in DeviceIds, st \in HttpOutcomes : SetVolumeResponse(d, st)

SpecVolume == InitOneDevice /\ [][NextVolume]_vars

\* no entity command is in flight
NoCallInFlight == ctl.op = "none" /\ \A d \in DeviceIds : cmd[d].op = "none"

\* Discovery of a growing registry and the airplay_devices push event
NextDiscovery ==
    \/ \E d \in DeviceIds : ServerChangesActive(d)
    \/ \E d \in DeviceIds : HubAddsEntity(d)
    \/ \E S \in SUBSET DeviceIds, v \in ListVolumes, bound \in BOOLEAN :
          \E nameless \in SUBSET S : DiscoverAirplayDevices("200", S, nameless, v, bound)
    \/ \E st \in HttpOutcomes \ {"200"} :
          DiscoverAirplayDevices(st, {}, {}, AbsentNum, FALSE)
    \/ \E S \in SUBSET DeviceIds, v \in ListVolumes :
          \E A \in SUBSET S : HandleWsAirplayDevices(S, A, v)

SpecDiscovery == InitConnected /\ [][NextDiscovery]_vars

\* Discovery and the satellite entity commands on the registered devices, the
\* server listing every device without a volume and the hub issuing one entity
\* command at a time
NextSatellite ==
    \/ \E d \in DeviceIds : ServerChangesActive(d)
    \/ \E st \in HttpOutcomes : DiscoverAirplayDevices(st, DeviceIds, {}, AbsentNum, TRUE)
    \/ \E d \in DeviceIds, op \in {"turn_on", "turn_off", "unjoin"} :
          NoCallInFlight /\ SatelliteCall(d, op)
    \/ \E d \in DeviceIds, st \in HttpOutcomes : GetActiveDeviceIds(d, st)
    \/ \E d \in DeviceIds, st \in HttpOutcomes : SetActiveResponse(d, st)
    \/ \E d \in DeviceIds, st \in HttpOutcomes : SetVolumeResponse(d, st)
    \/ \E d \in DeviceIds, members \in SingleRequests :
          NoCallInFlight /\ SatelliteJoinPlayers(d, members)

SpecSatellite == InitAllDevices /\ [][NextSatellite]_vars

\* Join requests to the satellite of device 1, while discovery and the server change
\* its active flag and volume
NextJoin ==
    \/ ServerChangesActive(1)
    \/ \E st \in HttpOutcomes, S \in SUBSET {1}, v \in ListVolumes :
          DiscoverAirplayDevices(st, S, {}, v, TRUE)
    \/ \E members \in JoinRequests : SatelliteJoinPlayers(1, members)

SpecJoin == InitOneDevice /\ [][NextJoin]_vars

----------------------------------------------------------------------------
(* Claims *)

\* the entity ids of the registered active devices that have one
Projection == Range(ActiveEntityIds(dict_order, is_active, entity_id))

\* C1: while the push channel is connected no poll occurs: the update hook issues no
\* GET /now_playing, and no polled snapshot is merged into the playback state while
\* ws_connected is true, whenever the poll was started.
C1_NoPollWhileConnected ==
    /\ last.op = "async_update" => ~last.connected
    /\ ~(last.op = "poll" /\ last.status = "200" /\ ws_connected)

\* C2: in every reachable state the main player's group members are the entity ids of
\* exactly the registered devices whose active flag is true.
C2_GroupIsProjection == Range(group_members) = Projection

\* C3: a satellite command that sets a device's active flag has, when it returns,
\* republished the main player's group members as the projection of the active devices:
\* a deactivate or unjoin that flips the flag, and an activate that returns after its
\* set-active call succeeded.
C3_RecomputedOnReturn ==
    [][\A d \in DeviceIds :
          /\ (/\ cmd[d].op \in {"turn_off", "unjoin"}
              /\ cmd[d].pc = "post"
              /\ is_active[d] /\ ~is_active'[d]
              /\ cmd'[d].op = "none")
             => group_members' = ActiveEntityIds(dict_order', is_active', entity_id')
          /\ (/\ cmd[d].op = "turn_on"
              /\ cmd[d].pc = "vol"
              /\ cmd'[d].op = "none")
             => group_members' = ActiveEntityIds(dict_order', is_active', entity_id')]_vars

\* C4: a successful activate(d) followed by a successful deactivate(d) leaves d inactive
\* and d's entity id absent from the main player's group members.
C4_RoundTrip ==
    (/\ last.op = "turn_off"
     /\ last.status = "200"
     /\ last.after = "turn_on")
    => /\ ~is_active[last.dev]
       /\ entity_id[last.dev] \notin Range(group_members)

\* a step in which the hub's join request to a satellite is decided
JoinDecided == last'.op = "join_accepted" \/ (last'.op = "join" /\ last'.result = "ValueError")

\* C5: a join request to a satellite that is anything other than exactly the main
\* player's entity id fails with the policy violation and leaves the satellite's active
\* flag, its volume and the main player's group members unchanged.
C5_OtherJoinsRejected ==
    [][(JoinDecided /\ last'.members # <<ControllerEntityId>>)
          => /\ last'.op = "join"
             /\ last'.result = "ValueError"
             /\ is_active' = is_active
             /\ dev_volume' = dev_volume
             /\ group_members' = group_members]_vars

\* an active satellite's request naming two entities was rejected while the group
\* held a member
C5_Witness ==
    /\ last.op = "join"
    /\ last.result = "ValueError"
    /\ last.members = <<ControllerEntityId, OtherEntityId>>
    /\ is_active[1]
    /\ dev_volume[1] = 35
    /\ group_members = <<SatelliteEntityId(1)>>

\* C6: a join request to a satellite naming exactly the main player's entity id is
\* accepted: no policy violation, the satellite becomes active and its entity id is in
\* the main player's group members.
C6_MainJoinAccepted ==
    [][(JoinDecided /\ last'.members = <<ControllerEntityId>>)
          => /\ last'.op = "join_accepted"
             /\ is_active'[last'.dev]
             /\ entity_id[last'.dev] \in Range(group_members')]_vars

\* the spellings of "playing" among the state fields
PlayingSpellings ==
    {s_playing, <<"P","L","A","Y","I","N","G">>, <<"P","l","a","y","i","n","g">>}

\* a snapshot was merged by the last step
Merged == last.op \in {"poll", "ws_now_playing"} /\ last.status = "200"

\* C7: after the merge of a snapshot whose state field is "playing" in any letter case
\* the playback state is Playing, whatever is_playing and the track metadata are.
C7_PlayingWins == (Merged /\ last.data.state \in PlayingSpellings) => state = PLAYING

\* a polled snapshot with state "PLAYING", is_playing false and no track was merged
C7_Witness ==
    /\ last.op = "poll"
    /\ last.status = "200"
    /\ last.data.state = <<"P","L","A","Y","I","N","G">>
    /\ last.data.is_playing = "false"
    /\ last.data.title = ""
    /\ last.data.name = ""
    /\ state = PLAYING

\* the playback state the state field names, when it names a recognized one
NamedState(st) ==
    IF Lower(st) = s_playing THEN PLAYING
    ELSE IF Lower(st) = s_paused THEN PAUSED
    ELSE IDLE

\* C8: a recognized state field decides the playback state whatever is_playing is; in
\* particular state "paused" with is_playing true yields Paused.
C8_StateFieldFirst ==
    (Merged /\ Lower(last.data.state) \in {s_playing, s_paused, s_stopped, s_idle})
    => state = NamedState(last.data.state)

\* p (percent) is level (thousandths) rounded to the nearest 5% and clamped to [0, 100]
NearestStepClamped(p, level) ==
    \E k \in ((level \div 50) - 1)..((level \div 50) + 1) :
        /\ 50 * k - level <= 25
        /\ level - 50 * k <= 25
        /\ p = IF 5 * k < 0 THEN 0 ELSE IF 5 * k > 100 THEN 100 ELSE 5 * k

\* C9: a satellite volume request answered with 200 stores the level rounded to the
\* nearest 0.05 and clamped to [0,1] (0.83 gives 0.85, 1.3 gives 1.0) and pushes that value
\* as the percentage; a request that fails leaves the stored volume unchanged.
C9_VolumeSnapped ==
    [][\A d \in DeviceIds :
          (cmd[d].op = "set_volume" /\ cmd[d].pc = "vol" /\ cmd'[d].op = "none")
          => IF last'.status = "200"
             THEN /\ NearestStepClamped(dev_volume'[d], cmd[d].level)
                  /\ last'.pushed = dev_volume'[d]
                  /\ cmd[d].level = 830 => dev_volume'[d] = 85
                  /\ cmd[d].level = 1300 => dev_volume'[d] = 100
             ELSE dev_volume'[d] = dev_volume[d]]_vars

\* the request for level 0.83 was answered with 200 and 0.85 is stored
C9_Witness ==
    /\ last.op = "set_volume"
    /\ last.status = "200"
    /\ last.level = 830
    /\ last.pushed = 85
    /\ dev_volume[1] = 85

\* C10: whenever the push channel has ended and the task waits out the reconnect delay,
\* a new connection attempt follows, however many attempts failed before, unless the
\* entity is removed and the task cancelled.
C10_ReconnectsForever == (ws_pc = "sleeping") ~> (ws_pc \in {"connecting", "cancelled"})

\* a connection attempt is made after MaxFailures failed attempts in a row
C10_Witness == ws_pc = "connecting" /\ ws_failures = MaxFailures /\ ~removed

----------------------------------------------------------------------------
\* Push events of every type next to the polling fallback
NextPush ==
    \/ NextChannel
    \/ \E st \in StateFields : HandleWsPlaybackState(st)
    \/ \E vol \in PushVolumes : HandleWsVolume(vol)
    \/ \E enabled \in {"absent", "true", "false"} : HandleWsShuffle(enabled)
    \/ \E mode \in PushRepeatModes : HandleWsRepeat(mode)
    \/ \E S \in SUBSET DeviceIds, v \in ListVolumes :
          \E A \in SUBSET S : HandleWsAirplayDevices(S, A, v)

SpecPush == Init /\ [][NextPush]_vars

\* C12: a step that changes the position or the duration is the handling of a
\* now_playing snapshot; ping, playback_state, volume, shuffle, repeat and
\* airplay_devices events leave both unchanged.
C12_DeltasKeepPosition ==
    [][/\ (media_position' # media_position \/ media_duration' # media_duration)
          => last'.op = "ws_now_playing"
       /\ last'.op \in {"ws_ping", "ws_playback_state", "ws_volume", "ws_shuffle",
                        "ws_repeat", "ws_airplay_devices"}
          => media_position' = media_position /\ media_duration' = media_duration]_vars

\* a playback_state event has been handled after a snapshot set position and duration
C12_Witness ==
    /\ last.op = "ws_playback_state" /\ state = PAUSED
    /\ media_position = 30 /\ media_duration = 200

----------------------------------------------------------------------------
\* The main player's transport commands, one at a time, while playback_state events
\* arrive
NextMain ==
    \/ \E call \in MainCalls : MainPlayerCall(call)
    \/ \E st \in HttpOutcomes : MainPlayerResponse(st)
    \/ \E st \in {s_playing, s_paused, s_idle} : HandleWsPlaybackState(st)

SpecMain == InitConnected /\ [][NextMain]_vars

\* a request of play, pause, set_volume, shuffle, repeat or play_media was answered
StatusAnswered(op) ==
    /\ ctl.pc = "http" /\ ctl.op = op /\ ctl'.op = "none"
    /\ last'.status \in {"200", "500"}

\* C13: when the request of play, pause, set_volume, shuffle, repeat or play_media is
\* answered 200 the command stores Playing, Paused, the requested volume, shuffle flag
\* or repeat mode, or Playing; when it is answered with another status every playback
\* field is as before.
C13_UpdateOnlyOn200 ==
    [][/\ \A op \in {"media_play", "media_pause", "set_volume_level", "set_shuffle",
                     "set_repeat", "play_media"} :
              (StatusAnswered(op) /\ last'.status # "200") => playbackVars' = playbackVars
       /\ (StatusAnswered("media_play") /\ last'.status = "200") => state' = PLAYING
       /\ (StatusAnswered("media_pause") /\ last'.status = "200") => state' = PAUSED
       /\ (StatusAnswered("play_media") /\ last'.status = "200") => state' = PLAYING
       /\ (StatusAnswered("set_volume_level") /\ last'.status = "200")
             => volume_level' = ctl.level
       /\ (StatusAnswered("set_shuffle") /\ last'.status = "200")
             => attr_shuffle' = ctl.flag
       /\ (StatusAnswered("set_repeat") /\ last'.status = "200")
             => attr_repeat' = ctl.mode]_vars

\* pause was answered 500 while the player was playing, and it still is
C13_Witness ==
    /\ last.op = "main_media_pause" /\ last.status = "500"
    /\ state = PLAYING

\* C14: a main-player command whose request fails (another status than 200, or an
\* exception such as a refused connection or a timeout) returns to its caller without
\* raising and leaves the playback fields as they were.
C14_FailuresCaught ==
    [][(ctl.pc = "http" /\ ctl'.op = "none" /\ last'.status # "200")
          => last'.result = "returned" /\ playbackVars' = playbackVars]_vars

\* C15: a satellite unjoin whose set-active call fails, by an exception or by a reply
\* other than 200, raises to its caller and leaves the active flags and the main
\* player's group members as they were.
C15_UnjoinFailurePropagates ==
    [][\A d \in DeviceIds :
          (/\ cmd[d].op = "unjoin" /\ cmd[d].pc = "post" /\ cmd'[d].op = "none"
           /\ last'.status # "200")
          => /\ last'.result = "raised"
             /\ is_active' = is_active
             /\ group_members' = group_members]_vars

\* the listed devices whose entry a discovery pass updates in place: is_active is the
\* listed flag, the volume the listed one unless it is missing or zero
UpdatedInPlace(D) ==
    /\ \A d \in D :
          /\ is_active'[d] = (d \in srv_active)
          /\ dev_volume'[d] = IF last'.volume # AbsentNum /\ last'.volume # 0
                              THEN last'.volume ELSE dev_volume[d]
    /\ \A d \in DeviceIds \ D :
          is_active'[d] = is_active[d] /\ dev_volume'[d] = dev_volume[d]

\* the registry keeps its entries in their order and gains one entry for each id of D
\* that it does not hold
GrowsBy(D) ==
    /\ Len(dict_order') >= Len(dict_order)
    /\ SubSeq(dict_order', 1, Len(dict_order)) = dict_order
    /\ Range(dict_order') = Range(dict_order) \cup D
    /\ Len(dict_order') = Cardinality(Range(dict_order'))

C17_PushNeverCreates ==
    [][last'.op = "ws_airplay_devices"
          => /\ dict_order' = dict_order
             /\ entity_id' = entity_id
             /\ \A d \in DeviceIds :
                   IF d \in last'.listed /\ Registered(dict_order, d)
                   THEN /\ is_active'[d] = (d \in last'.active)
                        /\ dev_volume'[d] =
                              IF last'.volume # AbsentNum /\ last'.volume # 0
                              THEN last'.volume ELSE dev_volume[d]
                   ELSE is_active'[d] = is_active[d] /\ dev_volume'[d] = dev_volume[d]]_vars

\* an event naming devices 1 and 2 active at volume 35 arrived while only device 1 was
\* registered
C17_Witness ==
    /\ last.op = "ws_airplay_devices"
    /\ last.listed = {1, 2} /\ last.active = {1, 2} /\ last.volume = 35
    /\ dict_order = <<1>>
    /\ is_active[1] /\ dev_volume[1] = 35
    /\ ~is_active[2] /\ dev_volume[2] = 50

\* a list without repeated items
NoDuplicates(list) == Len(list) = Cardinality(Range(list))

\* C18: async_turn_on of device d first fetches the server's active ids and adds d
\* once; it pushes that list; answered 200 it sets the active flag and only then posts
\* a volume of 20%, and when that is answered 200 the stored volume is 20% with the
\* flag still set by this command; answered otherwise it leaves flag and volume as
\* they were and sends no volume request.
C18_ActivateOrder ==
    [][\A d \in DeviceIds :
          /\ (cmd[d].op = "turn_on" /\ cmd[d].pc = "get" /\ cmd'[d].pc # "get")
                => /\ cmd'[d].pc = "post"
                   /\ NoDuplicates(cmd'[d].list)
                   /\ Range(cmd'[d].list) =
                         (IF last'.status = "200" THEN srv_active ELSE {}) \cup {d}
                   /\ is_active' = is_active /\ dev_volume' = dev_volume
          /\ (cmd[d].op = "turn_on" /\ cmd[d].pc = "post" /\ cmd'[d].pc # "post")
                => IF last'.op = "set_active_ok"
                   THEN /\ srv_active' = Range(cmd[d].list)
                        /\ is_active'[d]
                        /\ dev_volume' = dev_volume
                        /\ cmd'[d].pc = "vol"
                        /\ cmd'[d].level = DEFAULT_VOLUME_ON_ENABLE
                        /\ cmd'[d].rounded = 20
                   ELSE /\ last'.status # "200"
                        /\ is_active' = is_active /\ dev_volume' = dev_volume
                        /\ srv_active' = srv_active
                        /\ cmd'[d].op = "none"
          /\ (cmd[d].op = "turn_on" /\ cmd[d].pc = "vol" /\ cmd'[d].pc # "vol"
               /\ last'.status = "200")
                => dev_volume'[d] = 20 /\ is_active' = is_active]_vars

\* device 1 was activated while device 2 was active on the server: every request was
\* answered 200, the pushed list kept device 2
C18_Witness ==
    /\ last.op = "turn_on" /\ last.dev = 1 /\ last.status = "200"
    /\ last.list = <<2, 1>>
    /\ is_active[1] /\ dev_volume[1] = 20

\* C19: async_turn_off of device d pushes the fetched active ids without d; answered
\* 200 it clears the active flag, answered otherwise it leaves it; in no case does it
\* change a stored volume or go on to a volume request.
C19_DeactivateKeepsVolume ==
    [][\A d \in DeviceIds :
          /\ cmd'[d].op = "turn_off" => cmd'[d].pc \in {"get", "post"}
          /\ (cmd[d].op = "turn_off" /\ cmd[d].pc = "get" /\ cmd'[d].pc # "get")
                => /\ cmd'[d].pc = "post"
                   /\ Range(cmd'[d].list) =
                         (IF last'.status = "200" THEN srv_active ELSE {}) \ {d}
                   /\ is_active' = is_active /\ dev_volume' = dev_volume
          /\ (cmd[d].op = "turn_off" /\ cmd[d].pc = "post" /\ cmd'[d].pc # "post")
                => /\ cmd'[d].op = "none"
                   /\ dev_volume' = dev_volume
                   /\ IF last'.status = "200"
                      THEN ~is_active'[d] /\ srv_active' = Range(cmd[d].list)
                      ELSE is_active' = is_active /\ srv_active' = srv_active]_vars

\* device 1 was activated, which set its volume to 20%, and then deactivated
C19_Witness ==
    /\ last.op = "turn_off" /\ last.dev = 1 /\ last.status = "200"
    /\ last.after = "turn_on"
    /\ ~is_active[1] /\ dev_volume[1] = 20

----------------------------------------------------------------------------
\* The main player's grouping commands on the registered devices, one at a time,
\* while the server's active set changes and discovery reads it
NextController ==
    \/ \E d \in DeviceIds : ServerChangesActive(d)
    \/ \E st \in HttpOutcomes : DiscoverAirplayDevices(st, DeviceIds, {}, AbsentNum, TRUE)
    \/ \E members \in ControllerRequests : ControllerJoinPlayers(members)
    \/ ControllerUnjoinPlayer
    \/ \E st \in HttpOutcomes : ControllerSetActiveResponse(st)

SpecController == InitAllDevices /\ [][NextController]_vars

\* the registered devices whose entity id is requested
RequestedDevices(members) ==
    {d \in DeviceIds : Registered(dict_order, d) /\ entity_id[d] # NoEntity
                         /\ entity_id[d] \in Range(members)}

\* C20: async_join_players(requested) posts one set-active call with the device ids
\* of the requested entity ids that belong to registered devices, whatever their
\* number, and returns once it is answered; answered 200, every registered device is
\* active exactly if its id was posted and group_members is the requested list;
\* otherwise flags and group_members are as before and nothing is raised.
C20_JoinPlayersSynchronizes ==
    [][/\ last'.op = "call_join_players"
          => /\ ctl'.pc = "post"
             /\ Range(ctl'.device_ids) = RequestedDevices(last'.members)
             /\ Len(ctl'.device_ids) <= Len(last'.members)
             /\ is_active' = is_active /\ group_members' = group_members
             /\ srv_active' = srv_active
       /\ (ctl.op = "join_players" /\ ctl.pc = "post" /\ ctl' # ctl)
          => /\ ctl'.op = "none"
             /\ last'.result = "returned"
             /\ IF last'.status = "200"
                THEN /\ srv_active' = Range(ctl.device_ids)
                     /\ \A d \in Range(dict_order) :
                           is_active'[d] = (d \in Range(ctl.device_ids))
                     /\ group_members' = ctl.members
                ELSE /\ is_active' = is_active /\ group_members' = group_members
                     /\ srv_active' = srv_active]_vars

\* a join of device 1's entity and of an entity that is no satellite succeeded while
\* device 2 was active: device 2 is inactive now, the published list is the request
C20_Witness ==
    /\ last.op = "controller_join_players" /\ last.status = "200"
    /\ last.members = <<SatelliteEntityId(1), OtherEntityId>>
    /\ last.device_ids = <<1>>
    /\ is_active[1] /\ ~is_active[2]
    /\ group_members = <<SatelliteEntityId(1), OtherEntityId>>

----------------------------------------------------------------------------
\* The main entity's lifetime: the push channel and the polling fallback until the
\* entity is removed, next to the discovery loop that async_setup_entry started
NextLifecycle ==
    \/ NextChannel
    \/ \E d \in DeviceIds : ServerChangesActive(d)
    \/ \E st \in HttpOutcomes : DiscoverAirplayDevices(st, DeviceIds, {}, AbsentNum, TRUE)

SpecLifecycle == Init /\ [][NextLifecycle]_vars

\* the steps of the two background loops
LoopOps == {"discovery", "ws_connect", "ws_sleep_done", "ws_close", "ws_ping",
            "ws_now_playing"}

\* C21: once the main entity is removed, neither the push-channel loop nor the
\* discovery loop takes another step, and the registry and group members stay as
\* they are.
C21_LoopsCancelled ==
    [][removed => /\ last'.op \notin LoopOps
                  /\ UNCHANGED <<dict_order, is_active, dev_volume, group_members>>]_vars

\* C22: once an airplay_devices event is handled, group_members holds the entity ids
\* of all registered devices that are active and have one, whether the event names
\* them or not.
C22_PushRecomputesProjection ==
    last.op = "ws_airplay_devices" => Range(group_members) = Projection

----------------------------------------------------------------------------
\* _update_group_members called at any time while discovery fills the registry and
\* the hub adds the entities
NextRecompute ==
    \/ \E d \in DeviceIds : ServerChangesActive(d)
    \/ \E d \in DeviceIds : HubAddsEntity(d)
    \/ \E S \in SUBSET DeviceIds, bound \in BOOLEAN :
          DiscoverAirplayDevices("200", S, {}, AbsentNum, bound)
    \/ UpdateGroupMembers

SpecRecompute == InitConnected /\ [][NextRecompute]_vars

\* C23: _update_group_members leaves in group_members exactly the entity ids of the
\* registered active devices that have one, once each, and a second call right after
\* the first leaves the same list.
C23_RecomputeIdempotent ==
    [][last'.op = "update_group_members"
          => /\ Range(group_members') =
                   {entity_id[d] : d \in {e \in Range(dict_order) :
                                            is_active[e] /\ entity_id[e] # NoEntity}}
             /\ NoDuplicates(group_members')
             /\ NoEntity \notin Range(group_members')
             /\ last'.again => group_members' = group_members]_vars

\* a second call in a row, with device 1 active but not yet given an entity id and
\* device 2 active and bound
C23_Witness ==
    /\ last.op = "update_group_members" /\ last.again
    /\ is_active[1] /\ Registered(dict_order, 1) /\ entity_id[1] = NoEntity
    /\ is_active[2] /\ group_members = <<SatelliteEntityId(2)>>

----------------------------------------------------------------------------
\* Browsing the library
NextBrowse ==
    \/ \E id \in BrowseIds : AsyncBrowseMedia(id)
    \/ \E items \in Listings : BrowseResponse("200", items)
    \/ \E st \in HttpOutcomes \ {"200"} : BrowseResponse(st, <<>>)

SpecBrowse == InitConnected /\ [][NextBrowse]_vars

\* the ids that name the root or one of the views the tree links to
RecognizedId(id) ==
    \/ id = <<>> \/ id = <<"root">>
    \/ id \in {<<"playlists">>, <<"albums">>, <<"artists">>}
    \/ Len(id) = 2 /\ id[1] \in {"playlists", "albums", "artists"}
    \/ Len(id) >= 2 /\ id[1] \in {"playlist", "album", "artist"}

\* C24: browsing an id that is not recognized returns what browsing root returns: the
\* root node with the three directories playlists, albums and artists.
C24_UnknownIdIsRoot ==
    (last.op = "browse_media" /\ ~RecognizedId(last.id))
        => /\ last.result = RootView
           /\ last.result.has_children
           /\ Len(last.result.children) = 3

\* the sum of the counts of a list of directories
RECURSIVE SumCounts(_)
SumCounts(children) ==
    IF children = <<>> THEN 0 ELSE Head(children).count + SumCounts(Tail(children))

\* the names of a listing that are not blank
NonBlank(items) == {i \in 1..Len(items) : Chars[items[i]] # <<>> /\
                                          \E k \in 1..Len(Chars[items[i]]) :
                                              Chars[items[i]][k] # " "}

\* the bucket of a name: its first non-blank character upper-cased if a letter, else #
BucketOf(name) ==
    LET chars == Chars[name]
        k == CHOOSE j \in 1..Len(chars) :
                chars[j] # " " /\ \A h \in 1..(j - 1) : chars[h] = " "
    IN  IF chars[k] \in Range(UpperLetters) THEN chars[k]
        ELSE IF chars[k] \in Range(LowerLetters)
        THEN UpperLetters[CHOOSE i \in 1..26 : LowerLetters[i] = chars[k]]
        ELSE "#"

\* the position of a bucket in the order A..Z, #
BucketRank(b) ==
    IF b = "#" THEN 27 ELSE CHOOSE i \in 1..26 : UpperLetters[i] = b

\* C25: browsing albums or artists over a listing answered 200 returns one directory
\* for each bucket that has an item and none for the others; each carries the number
\* of the listing's items in its bucket, the counts add up to the number of non-blank
\* items, and the directories are ordered A to Z with # last.  The listing Air, Bach,
\* 3 Doors Down yields A (1), B (1), # (1).
C25_LetterBuckets ==
    (last.op = "browse_media" /\ last.status = "200"
     /\ last.id \in {<<"albums">>, <<"artists">>})
        => LET dirs == last.result.children
               items == last.items
           IN  /\ {dirs[i].title[1] : i \in 1..Len(dirs)}
                     = {BucketOf(items[i]) : i \in NonBlank(items)}
               /\ \A i \in 1..Len(dirs) :
                     /\ dirs[i].count =
                           Cardinality({k \in NonBlank(items) :
                                           BucketOf(items[k]) = dirs[i].title[1]})
                     /\ dirs[i].count >= 1
                     /\ dirs[i].id = <<last.id[1], dirs[i].title[1]>>
               /\ \A i, j \in 1..Len(dirs) :
                     i < j => BucketRank(dirs[i].title[1]) < BucketRank(dirs[j].title[1])
               /\ SumCounts(dirs) = Cardinality(NonBlank(items))
               /\ items = <<"Air", "Bach", "3 Doors Down">>
                     => /\ [i \in 1..3 |-> dirs[i].title[1]] = <<"A", "B", "#">>
                        /\ [i \in 1..3 |-> dirs[i].count] = <<1, 1, 1>>
                        /\ Len(dirs) = 3

\* artists was browsed over the listing Air, Bach, 3 Doors Down
C25_Witness ==
    /\ last.op = "browse_media" /\ last.status = "200" /\ last.id = <<"artists">>
    /\ last.items = <<"Air", "Bach", "3 Doors Down">>
    /\ Len(last.result.children) = 3
    /\ last.result.children[3].title = <<"#">>

----------------------------------------------------------------------------
(* The artwork URL *)

----------------------------------------------------------------------------
(* Play dispatch *)

\* the request of async_play_media for the media id was answered or raised
PlayAnswered(id) ==
    /\ ctl.pc = "http" /\ ctl.op = "play_media" /\ ctl.media = id
    /\ last'.op = "main_play_media"

\* C27: async_play_media posts, for track:playlist:P:T, type playlist with name P;
\* for track:A:T, type track with album A and name T; for kind:name with kind one of
\* playlist, album, artist, type kind with that name (the segments after the kind,
\* rejoined); the state becomes Playing if the post is answered 200 and is unchanged
\* otherwise.
C27_PlayDispatch ==
    [][/\ \A id \in MediaIds :
             PlayAnswered(id) =>
                /\ (Len(id) = 4 /\ id[1] = "track" /\ id[2] = "playlist")
                      => last'.json = [type |-> "playlist", name |-> <<id[3]>>,
                                       album |-> ""]
                /\ (Len(id) = 3 /\ id[1] = "track")
                      => last'.json = [type |-> "track", name |-> <<id[3]>>,
                                       album |-> id[2]]
                /\ id[1] \in {"playlist", "album", "artist"}
                      => last'.json = [type |-> id[1],
                                       name |-> SubSeq(id, 2, Len(id)), album |-> ""]
                /\ last'.status = "200" => state' = PLAYING
                /\ last'.status # "200" => state' = state
       /\ (state' = PLAYING /\ state # PLAYING /\ last'.op = "main_play_media")
             => last'.status = "200"]_vars

\* the playlist track track:playlist:Mix:Something was posted as the playlist Mix and
\* answered 200
C27_Witness ==
    /\ last.op = "main_play_media" /\ last.status = "200"
    /\ last.call.media = <<"track", "playlist", "Mix", "Something">>
    /\ last.json.type = "playlist" /\ last.json.name = <<"Mix">>
    /\ state = PLAYING

----------------------------------------------------------------------------
(* Concurrent activation *)

\* async_turn_on and async_turn_off called on the entities with no ordering between
\* the calls, each a task of the event loop that yields at its requests; the server
\* answers every listing request
NextRace ==
    \/ \E d \in DeviceIds, op \in {"turn_on", "turn_off"} : SatelliteCall(d, op)
    \/ \E d \in DeviceIds : GetActiveDeviceIds(d, "200")
    \/ \E d \in DeviceIds, st \in HttpOutcomes : SetActiveResponse(d, st)
    \/ \E d \in DeviceIds, st \in HttpOutcomes : SetVolumeResponse(d, st)

SpecRace == InitAllDevices /\ [][NextRace]_vars

\* the activations of d and e are both past their push answered 200, that of d being
\* the later one, and each fetched a list without the other device
StaleActivations(d, e) ==
    /\ d # e
    /\ last.op = "set_active_ok" /\ last.dev = d
    /\ cmd[d].op = "turn_on" /\ cmd[d].pc = "vol"
    /\ cmd[e].op = "turn_on" /\ cmd[e].pc = "vol"
    /\ e \notin Range(cmd[d].list)
    /\ d \notin Range(cmd[e].list)

\* C28: when two concurrent activations of different devices each fetched the active
\* list before the other pushed and both pushes were answered 200, both local flags
\* are true and the server's set is the list pushed last, which omits the device
\* that pushed first: the server's set and the local flags disagree.
C28_StaleReadLosesDevice ==
    \A d, e \in DeviceIds :
        StaleActivations(d, e)
            => /\ is_active[d] /\ is_active[e]
               /\ srv_active = Range(cmd[d].list)
               /\ e \notin srv_active

\* devices 1 and 2 were activated concurrently from the empty list: both flags are
\* true and the server's set is {1}
C28_Witness ==
    /\ StaleActivations(1, 2)
    /\ cmd[1].list = <<1>> /\ cmd[2].list = <<2>>
    /\ is_active[1] /\ is_active[2]
    /\ srv_active = {1}

----------------------------------------------------------------------------
(* The synchronous unjoin hooks *)

\* the main player's unjoin_player returns to the worker thread: its coroutine has
\* run to its end
ControllerUnjoinReturns == ctl.op = "unjoin" /\ ctl'.op = "none"

\* the unjoin_player of the satellite of d returns to the worker thread
SatelliteUnjoinReturns(d) == cmd[d].op = "unjoin" /\ cmd'[d].op = "none"

\* the main player's hook returns only once its set-active request is finished, with
\* every flag false and no group member left after a 200, raising on an exception
C29_ControllerHook ==
    ControllerUnjoinReturns
        => /\ ctl.pc = "post"
           /\ last'.status = "exc" <=> last'.result = "raised"
           /\ last'.status = "200"
                 => /\ \A d \in Range(dict_order) : ~is_active'[d]
                    /\ group_members' = <<>>

\* the same for a satellite's hook, its own flag false and the group members
\* recomputed after a 200
C29_SatelliteHook(d) ==
    SatelliteUnjoinReturns(d)
        => /\ cmd[d].pc = "post"
           /\ last'.status = "exc" <=> last'.result = "raised"
           /\ last'.status = "200"
                 => /\ ~is_active'[d]
                    /\ group_members' = ActiveEntityIds(dict_order', is_active',
                                                         entity_id')

\* C29: unjoin_player returns to its calling thread only when its coroutine has run to
\* its end: the set-active request is finished, after a 200 the active flags and the
\* main player's group members are updated, and an exception of the coroutine is
\* raised to the caller.
C29_UnjoinHookBlocks ==
    [][C29_ControllerHook /\ \A d \in DeviceIds : C29_SatelliteHook(d)]_vars

----------------------------------------------------------------------------
(* The mirrored volume *)

\* C30: in every reachable state the main player's volume level lies between 0 and 1
\* (0 and 100 percent), whatever the polled snapshots, the now_playing and volume
\* events and the set_volume commands were.
C30_VolumeInRange == volume_level \in 0..100

----------------------------------------------------------------------------
(* The volume, shuffle and now_playing push events *)

\* C31: once a volume event carrying a percentage between 0 and 100, 0 included, is
\* handled, the main player's volume level is that percentage and no other playback
\* field has changed.
C31_VolumeEventStored ==
    [][(last'.op = "ws_volume" /\ last'.volume \in 0..100)
          => /\ volume_level' = last'.volume
             /\ UNCHANGED <<state, media_title, media_artist, media_album_name,
                            media_position, media_duration, entity_picture,
                            attr_shuffle, attr_repeat>>]_vars

\* C32: once a shuffle event carrying enabled = b is handled, the shuffle flag is b,
\* for b true and for b false.
C32_ShuffleEventStored ==
    [][/\ (last'.op = "ws_shuffle" /\ last'.enabled = "true") => attr_shuffle'
       /\ (last'.op = "ws_shuffle" /\ last'.enabled = "false") => ~attr_shuffle']_vars

\* now_playing snapshots that vary position and duration: the start of a track, a
\* position inside it, no duration yet
PositionSnapshots ==
    {Snapshot(s_playing, "true", "Song", "", "Album", pos, dur, AbsentNum) :
        pos \in {0, 30, 31}, dur \in {0, 200}}

\* Snapshots with positions, merged from polls and from now_playing events
NextPosition ==
    \/ AsyncAddedToHass
    \/ AsyncUpdate
    \/ \E st \in HttpOutcomes, data \in PositionSnapshots : PollResponse(st, data)
    \/ \E ok \in BOOLEAN : WsConnect(ok)
    \/ \E data \in PositionSnapshots : HandleWsNowPlaying(data)
    \/ \E how \in {"close", "error"} : WsClose(how)
    \/ WsSleepDone

SpecPosition == Init /\ [][NextPosition]_vars

\* C33: once a now_playing event carrying position p >= 0 and duration d is handled,
\* the mirrored position is p and the mirrored duration is d, p = 0 included.
C33_NowPlayingSetsPosition ==
    (last.op = "ws_now_playing" /\ last.data.position >= 0
     /\ last.data.duration # AbsentNum)
        => media_position = last.data.position /\ media_duration = last.data.duration

----------------------------------------------------------------------------
(* Frames that fail to parse or to process *)

\* Push frames on the connected channel over the registered devices: well-formed
\* airplay_devices and volume events, airplay_devices events with malformed volumes,
\* frames without prefix or with invalid JSON, and the end of the connection
NextFrames ==
    \/ \E S \in SUBSET DeviceIds, v \in ListVolumes :
          \E A \in SUBSET S : HandleWsAirplayDevices(S, A, v)
    \/ \E S \in SUBSET DeviceIds : \E A \in SUBSET S, B \in SUBSET S :
          HandleWsMalformedDevices(S, A, B)
    \/ \E kind \in {"no_prefix", "bad_json"} : HandleWsBadFrame(kind)
    \/ \E vol \in PushVolumes : HandleWsVolume(vol)
    \/ \E how \in {"close", "error"} : WsClose(how)

SpecFrames == InitAllDevices /\ [][NextFrames]_vars

\* the handling of a frame that failed to parse or to process
FrameFailed ==
    \/ last'.op = "ws_bad_frame"
    \/ last'.op = "ws_malformed_devices" /\ last'.raised

\* C34: a frame that fails to parse or to process leaves the playback fields, every
\* device's active flag and volume and the main player's group members as they were,
\* and leaves the channel connected and reading.
C34_FailedFrameChangesNothing ==
    [][FrameFailed
          => /\ UNCHANGED <<playbackVars, is_active, dev_volume, group_members>>
             /\ ws_pc' = "reading" /\ ws_connected']_vars

----------------------------------------------------------------------------
(* The main player's unjoin *)

\* C35: the main player's unjoin posts the empty list of device ids; answered 200,
\* the server's set is empty, every registered device is inactive and the group
\* members are empty; answered otherwise, no flag and no group member changes.
C35_UnjoinClearsAll ==
    [][/\ last'.op = "call_controller_unjoin"
          => /\ ctl'.pc = "post" /\ ctl'.device_ids = <<>>
             /\ UNCHANGED <<is_active, group_members, srv_active>>
       /\ (ctl.op = "unjoin" /\ ctl.pc = "post" /\ ctl' # ctl)
          => IF last'.status = "200"
             THEN /\ srv_active' = {}
                  /\ \A d \in Range(dict_order) : ~is_active'[d]
                  /\ group_members' = <<>>
             ELSE UNCHANGED <<is_active, group_members, srv_active>>]_vars

\* an unjoin was answered 200 while device 1 was active: nothing is active now and
\* the group is empty
C35_Witness ==
    /\ last.op = "controller_unjoin" /\ last.status = "200"
    /\ last.before = {1}
    /\ \A d \in DeviceIds : ~is_active[d]
    /\ group_members = <<>> /\ srv_active = {}

----------------------------------------------------------------------------
(* The list a satellite command pushes *)

\* C36: the list that async_turn_on, async_turn_off or the unjoin of d prepares to
\* push differs from the server's active set only in d: every other device active
\* on the server is in it and no other device is added, whether the fetch of the
\* active ids was answered 200, answered otherwise or failed.
C36_OthersKept ==
    [][\A d \in DeviceIds :
          (cmd[d].pc = "get" /\ cmd'[d].pc = "post")
             => /\ Range(cmd'[d].list) \ {d} = srv_active \ {d}
                /\ d \in Range(cmd'[d].list) <=> cmd[d].op = "turn_on"]_vars

----------------------------------------------------------------------------
(* One entity per device id *)

\* longest listing of the refreshes below
MaxListing == 2

\* a record of a listing
Record(id, name, active, volume) ==
    [id |-> id, name |-> name, active |-> active, volume |-> volume]

\* the records a listing can hold: each device inactive, active, or active with a
\* volume that is not a number; a record without a name and one without an id
ListingRecords ==
    {Record(d, "speaker", a, AbsentNum) : d \in DeviceIds, a \in BOOLEAN}
    \cup {Record(d, "speaker", TRUE, NonNumeric) : d \in DeviceIds}
    \cup {Record(1, "", TRUE, AbsentNum), Record(0, "speaker", TRUE, AbsentNum)}

\* the listings of at most MaxListing records, ids repeated or not
RecordListings ==
    UNION {[1..n -> ListingRecords] : n \in 0..MaxListing}

\* Discovery refreshes over such listings, and the hub adding what it was handed
NextListings ==
    \/ \E devices \in RecordListings, bound \in BOOLEAN : DiscoverListing(devices, bound)
    \/ \E st \in HttpOutcomes \ {"200"} :
          DiscoverAirplayDevices(st, {}, {}, AbsentNum, FALSE)
    \/ \E d \in DeviceIds : HubAddsEntity(d)

SpecListings == InitConnected /\ [][NextListings]_vars

\* the ids of the records of a listing that have an id and a name
NamedIds(devices) ==
    {devices[i].id : i \in {k \in 1..Len(devices) :
                                devices[k].id # 0 /\ devices[k].name # ""}}

\* C37: after any sequence of discovery refreshes the registry holds each device id
\* at most once, every registered entity has been handed to the hub exactly once,
\* and a refresh registers only ids of records that have an id and a name.
C37_OneEntityPerId ==
    [][/\ NoDuplicates(dict_order')
       /\ \A d \in DeviceIds :
             handed'[d] = IF Registered(dict_order', d) THEN 1 ELSE 0
       /\ last'.op = "discovery_listing"
             => Range(dict_order') \ Range(dict_order) \subseteq NamedIds(last'.devices)]_vars

----------------------------------------------------------------------------
(* Browsing a view and playing one of its leaves *)

\* the albums and playlists browsed: names without and with a colon
RoundTripIds ==
    {<<"album", "Air">>, <<"album", "Vol", " 1">>,
     <<"playlist", "Air">>, <<"playlist", "Live", " 1969">>}

\* The hub browses an album or a playlist and plays one of the leaves it was given
NextRoundTrip ==
    \/ \E id \in RoundTripIds : AsyncBrowseMedia(id)
    \/ \E items \in Listings : BrowseResponse("200", items)
    \/ \E st \in HttpOutcomes \ {"200"} : BrowseResponse(st, <<>>)
    \/ \E i \in 1..MaxItems : PlayLeaf(i)
    \/ \E st \in HttpOutcomes : MainPlayerResponse(st)

SpecRoundTrip == InitConnected /\ [][NextRoundTrip]_vars

\* C38: the play request posted for a leaf that browsing album:A emitted is of type
\* track with album A and the leaf's track name, and the one posted for a leaf that
\* browsing playlist:P emitted is of type playlist with name P, for names with and
\* without a colon (names are compared segment by segment).
C38_BrowsePlayRoundTrip ==
    [][(last.op = "call_play_leaf" /\ last'.op = "main_play_media")
          => /\ last.from[1] = "album"
                   => /\ last'.json.type = "track"
                      /\ <<last'.json.album>> = Tail(last.from)
                      /\ last'.json.name = last.title
             /\ last.from[1] = "playlist"
                   => /\ last'.json.type = "playlist"
                      /\ last'.json.name = Tail(last.from)]_vars

----------------------------------------------------------------------------
(* Repair by the next refresh *)

\* the active value the listing gives for device d: that of its last record with an
\* id and a name
ListedActive(devices, d) ==
    LET at == {i \in 1..Len(devices) :
                  devices[i].id = d /\ devices[i].name # ""}
        k == CHOOSE i \in at : \A j \in at : j <= i
    IN  devices[k].active

\* C39: right after a discovery refresh answered 200, every registered device that
\* the listing names has the listing's active value as its flag, and the main
\* player's group members are the entity ids of the active bound devices.
C39_RefreshRepairs ==
    [][/\ (last'.op = "discovery" /\ last'.status = "200")
             => /\ \A d \in last'.listed \ last'.nameless :
                      Registered(dict_order', d) /\ is_active'[d] = (d \in srv_active)
                /\ group_members' = ActiveEntityIds(dict_order', is_active', entity_id')
       /\ (last'.op = "discovery_listing" /\ last'.status = "200")
             => /\ \A d \in NamedIds(last'.devices) :
                      Registered(dict_order', d)
                         => is_active'[d] = ListedActive(last'.devices, d)
                /\ group_members' = ActiveEntityIds(dict_order', is_active', entity_id')
      ]_vars

----------------------------------------------------------------------------
(* The state a satellite reports *)

\* C40: in every reachable state an inactive satellite reports OFF and an active one
\* reports the main player's playback state.
C40_SatelliteFollowsMain ==
    \A d \in Range(dict_order) :
        SatelliteState(d) = IF is_active[d] THEN state ELSE OFF

====
